---------------------------- MODULE Spec2Model ----------------------------
(***************************************************************************)
(* Model of the streambridge resolution core:                               *)
(*   src/lib/commonClient.js   parseMediaId, _isMatchingProviderId,         *)
(*                             getQualityTag, deduplicateAndSortStreams     *)
(*   src/lib/jellyfinClient.js makeApiRequest, findMovieItem,               *)
(*                             findSeriesItem, findEpisodeItem,             *)
(*                             getPlaybackStreams, getStream                 *)
(*                                                                         *)
(* JavaScript values are represented as follows.                            *)
(*   string            a sequence of one-character strings                  *)
(*   null / undefined  NULL where a string is expected, None where an       *)
(*                     object is expected, NullNum where a number is        *)
(*   number            a record [t |-> "num", n |-> k]; NaN is its own      *)
(*                     record [t |-> "NaN", n |-> 0]                        *)
(*   object or null    Some(r) = <<r>>, None = <<>>                         *)
(***************************************************************************)
EXTENDS Integers, Sequences, FiniteSets, TLC

VARIABLES
    segments,         \* the colon-free segments the composite id was built from
    idOrExternalId,   \* parseMediaId: the input string (or NULL)
    parsedId,         \* parseMediaId: the value returned
    parsePc,          \* "call" before parseMediaId ran, "returned" after
    providerIds,      \* _isMatchingProviderId: the remote ProviderIds (or None)
    targetIds,        \* _isMatchingProviderId: the four ...IdToMatch arguments
    matchResult,      \* _isMatchingProviderId: the value returned
    matchPc,          \* "call" before _isMatchingProviderId ran, "returned" after
    videoStream,      \* getQualityTag: the video MediaStream (or None)
    qualityTag,       \* getQualityTag: the value returned
    qualityPc,        \* "call" before getQualityTag ran, "returned" after
    streams,          \* deduplicateAndSortStreams: the input list
    dedupOut,         \* deduplicateAndSortStreams(streams)
    dedupAgain,       \* deduplicateAndSortStreams(dedupOut)
    dedupPc,          \* "call", "returned" after one call, "again" after two
    config,           \* getStream: the config argument (None when absent)
    compositeId,      \* getStream: the idOrExternalId argument
    pc,               \* getStream: the await it is suspended at
    parsed,           \* getStream: parsedId
    foundItems,       \* foundItems of findMovieItem / foundSeries of findSeriesItem
    formats,          \* findMovieItem: the anyProviderIdFormats still to be tried
    cursor,           \* index of the item or series the for-of loop is at
    targetSeason,     \* findEpisodeItem: targetSeason
    episode,          \* getStream: the episode found for the current series
    allStreams,       \* getStream: allStreams
    failedSeries,     \* getStream: failedSeries
    inflight,         \* the request awaiting its response (None when there is none)
    requests,         \* every request issued so far, in order
    outcome,          \* how the promise of getStream settled
    answers,          \* history: how each request was answered ("null", "data", "broken")
    embyAllStreams,   \* getStream of embyClient.js on the same responses: allStreams
    embyOutcome,      \* how the promise of getStream of embyClient.js settled
    directMatches,    \* history: the verified matches of Strategy A (None before it completes)
    mediaSource,      \* enrichment: the MediaSource (None for null)
    mediaInfo,        \* safeExtractMediaInfo: the profile returned
    streamDetail,     \* getPlaybackStreams: what one pass of its loop did
    enrichPc,         \* "call", "extracted" or "processed"; "loop" or "looped"
    mediaSources,     \* getPlaybackStreams: playbackInfoData.MediaSources
    streamDetailsArray, \* getPlaybackStreams: what the call returned
    serverUrl,        \* assertPublicHost: the serverUrl argument, as URL reads it
    dnsRecords,       \* the records the resolver holds for the host
    addressErrors,    \* ip-address, on text that is no address: "thrown" or "recorded"
    ips,              \* resolveHostToIPs: ips
    guardOutcome,     \* assertPublicHost: "returned", or the message thrown
    guardPc,          \* assertPublicHost: the await it is suspended at
    routeRequest,     \* stream route: the cfg and id parameters of the request
    response,         \* stream route: the response sent
    routePc           \* stream route: "request", "awaiting" or "responded"

parseVars == <<segments, idOrExternalId, parsedId, parsePc>>
matchVars == <<providerIds, targetIds, matchResult, matchPc>>
qualityVars == <<videoStream, qualityTag, qualityPc>>
dedupVars == <<streams, dedupOut, dedupAgain, dedupPc>>
streamVars == <<config, compositeId, pc, parsed, foundItems, formats, cursor,
                targetSeason, episode, allStreams, failedSeries, inflight,
                requests, outcome, directMatches, answers, embyAllStreams,
                embyOutcome>>
enrichVars == <<mediaSource, mediaInfo, streamDetail, enrichPc, mediaSources,
                streamDetailsArray>>
guardVars == <<serverUrl, dnsRecords, addressErrors, ips, guardOutcome, guardPc>>
routeVars == <<routeRequest, response, routePc>>
pureVars == <<parseVars, matchVars, qualityVars, dedupVars>>
vars == <<parseVars, matchVars, qualityVars, dedupVars, streamVars, enrichVars,
          guardVars, routeVars>>

-----------------------------------------------------------------------------
(* Bounds of the model.                                                     *)

\* Largest number of colon-separated segments of an enumerated composite id.
MaxSegments == 4

\* Largest number of keys of an enumerated ProviderIds object.
MaxProviderKeys == 2

\* Largest number of blank-separated words of an enumerated DisplayTitle.
MaxTitleWords == 2

\* Longest list handed to deduplicateAndSortStreams on its own.
MaxStreams == 3

\* Largest number of items the server returns to one catalog query.
MaxItems == 2

\* Largest number of A records, and of AAAA records, the resolver answers with.
MaxAnswers == 2

\* Largest number of MediaSources in one playback-info response.
MaxSources == 2

-----------------------------------------------------------------------------
(* JavaScript values.                                                       *)

NULL == <<"null">>
None == <<>>
Some(r) == <<r>>
NullNum == [t |-> "null", n |-> 0]
NaN == [t |-> "NaN", n |-> 0]
Num(k) == [t |-> "num", n |-> k]

\* isNaN(x) for a value produced by parseInt
isNaN(x) == x.t = "NaN"

-----------------------------------------------------------------------------
(* String primitives of the JavaScript runtime, on character sequences.     *)

UpperChars == <<"A","B","C","D","E","F","G","H","I","J","K","L","M",
                "N","O","P","Q","R","S","T","U","V","W","X","Y","Z">>
LowerChars == <<"a","b","c","d","e","f","g","h","i","j","k","l","m",
                "n","o","p","q","r","s","t","u","v","w","x","y","z">>
DigitChars == <<"0","1","2","3","4","5","6","7","8","9">>

IsDigit(c) == \E i \in 1..10 : DigitChars[i] = c
DigitVal(c) == (CHOOSE i \in 1..10 : DigitChars[i] = c) - 1
IsWhite(c) == c = " "

toLowerCaseChar(c) ==
    IF \E i \in 1..26 : UpperChars[i] = c
    THEN LowerChars[CHOOSE i \in 1..26 : UpperChars[i] = c]
    ELSE c

toUpperCaseChar(c) ==
    IF \E i \in 1..26 : LowerChars[i] = c
    THEN UpperChars[CHOOSE i \in 1..26 : LowerChars[i] = c]
    ELSE c

\* String.prototype.toLowerCase / toUpperCase
toLowerCase(s) == [i \in 1..Len(s) |-> toLowerCaseChar(s[i])]
toUpperCase(s) == [i \in 1..Len(s) |-> toUpperCaseChar(s[i])]

\* String.prototype.startsWith
startsWith(s, p) == Len(s) >= Len(p) /\ SubSeq(s, 1, Len(p)) = p

\* String.prototype.substring(k): the suffix from 0-based index k
substring(s, k) == SubSeq(s, k + 1, Len(s))

\* position (1-based) of the first occurrence of p in s, 0 when there is none
indexOf(s, p) ==
    LET hits == {i \in 1..(Len(s) - Len(p) + 1) : SubSeq(s, i, i + Len(p) - 1) = p}
    IN IF hits = {} THEN 0 ELSE CHOOSE i \in hits : \A j \in hits : i <= j

\* String.prototype.includes
includes(s, p) == Len(p) = 0 \/ indexOf(s, p) > 0

\* String.prototype.replace(p, "") with a string pattern: the first
\* occurrence only
replaceFirst(s, p) ==
    LET i == indexOf(s, p)
    IN IF i = 0 THEN s
       ELSE SubSeq(s, 1, i - 1) \o SubSeq(s, i + Len(p), Len(s))

\* String.prototype.split(":")
RECURSIVE split(_)
split(s) ==
    LET i == indexOf(s, <<":">>)
    IN IF i = 0 THEN <<s>>
       ELSE <<SubSeq(s, 1, i - 1)>> \o split(SubSeq(s, i + 1, Len(s)))

\* the value of the longest run of decimal digits at the front of s,
\* accumulated left to right from acc
RECURSIVE digitsValue(_, _)
digitsValue(s, acc) ==
    IF s = <<>> \/ ~IsDigit(s[1]) THEN acc
    ELSE digitsValue(Tail(s), acc * 10 + DigitVal(s[1]))

RECURSIVE skipWhite(_)
skipWhite(s) == IF s # <<>> /\ IsWhite(s[1]) THEN skipWhite(Tail(s)) ELSE s

\* parseInt(s, 10): leading white space is skipped, one sign is accepted,
\* the longest digit prefix is converted and whatever follows it is ignored;
\* NaN when there is no digit at that place
parseInt(s) ==
    LET t == skipWhite(s)
        neg == t # <<>> /\ t[1] = "-"
        u == IF t # <<>> /\ (t[1] = "-" \/ t[1] = "+") THEN Tail(t) ELSE t
    IN IF u = <<>> \/ ~IsDigit(u[1]) THEN NaN
       ELSE Num(IF neg THEN 0 - digitsValue(u, 0) ELSE digitsValue(u, 0))

\* s joined by ":" (the inverse of split on colon-free segments)
RECURSIVE joinColon(_)
joinColon(segs) ==
    IF Len(segs) = 1 THEN segs[1]
    ELSE segs[1] \o <<":">> \o joinColon(Tail(segs))

-----------------------------------------------------------------------------
(* commonClient.js: parseMediaId                                            *)

ITEM_TYPE_MOVIE == "Movie"
ITEM_TYPE_EPISODE == "Episode"

S_tt == <<"t","t">>
S_imdb == <<"i","m","d","b">>
S_tmdb == <<"t","m","d","b">>
S_tvdb == <<"t","v","d","b">>
S_anidb == <<"a","n","i","d","b">>

\* the locals of parseMediaId as initialised at lines 70-77
parseLocals(parts) ==
    [baseId |-> parts[1], itemType |-> ITEM_TYPE_MOVIE,
     seasonNumber |-> NullNum, episodeNumber |-> NullNum,
     imdbId |-> NULL, tmdbId |-> NULL, tvdbId |-> NULL, anidbId |-> NULL]

\* a slip in lines 81-82: season and episode read from each other's segment
parseThreePartsSwapped(parts) ==
    LET seasonNumber == parseInt(parts[3])
        episodeNumber == parseInt(parts[2])
    IN IF isNaN(seasonNumber) \/ isNaN(episodeNumber) THEN None
       ELSE Some([parseLocals(parts) EXCEPT !.itemType = ITEM_TYPE_EPISODE,
                                            !.seasonNumber = seasonNumber,
                                            !.episodeNumber = episodeNumber])

\* lines 79-86: the three-segment form
parseThreeParts(parts) ==
    LET seasonNumber == parseInt(parts[2])
        episodeNumber == parseInt(parts[3])
    IN IF isNaN(seasonNumber) \/ isNaN(episodeNumber) THEN None
       ELSE Some([parseLocals(parts) EXCEPT !.itemType = ITEM_TYPE_EPISODE,
                                            !.seasonNumber = seasonNumber,
                                            !.episodeNumber = episodeNumber])

\* a slip in lines 95-106: baseId is set to the bare value instead of the
\* normalised prefix+value, so the trailing chain classifies the value
parseTwoPartsKeepsBase(parts) ==
    LET prefix == toLowerCase(parts[1])
        idPart == parts[2]
        l == [parseLocals(parts) EXCEPT !.baseId = idPart]
    IN IF idPart = <<>> THEN None
       ELSE IF prefix = S_tmdb THEN Some([l EXCEPT !.tmdbId = idPart])
       ELSE IF prefix = S_imdb
            THEN Some([l EXCEPT !.imdbId = IF startsWith(idPart, S_tt) THEN idPart
                                          ELSE S_tt \o idPart])
       ELSE IF prefix = S_tvdb THEN Some([l EXCEPT !.tvdbId = idPart])
       ELSE IF prefix = S_anidb THEN Some([l EXCEPT !.anidbId = idPart])
       ELSE None

\* lines 87-110: the two-segment form prefix:value
parseTwoParts(parts) ==
    LET prefix == toLowerCase(parts[1])
        idPart == parts[2]
        l == parseLocals(parts)
    IN IF idPart = <<>> THEN None
       ELSE IF prefix = S_tmdb
            THEN Some([l EXCEPT !.tmdbId = idPart, !.baseId = S_tmdb \o idPart])
       ELSE IF prefix = S_imdb
            THEN LET imdbId == IF startsWith(idPart, S_tt) THEN idPart
                               ELSE S_tt \o idPart
                 IN Some([l EXCEPT !.imdbId = imdbId, !.baseId = imdbId])
       ELSE IF prefix = S_tvdb
            THEN Some([l EXCEPT !.tvdbId = idPart, !.baseId = S_tvdb \o idPart])
       ELSE IF prefix = S_anidb
            THEN Some([l EXCEPT !.anidbId = idPart, !.baseId = S_anidb \o idPart])
       ELSE None

\* lines 79-114: dispatch on the number of segments
parseSegments(parts) ==
    IF Len(parts) = 3 THEN parseThreeParts(parts)
    ELSE IF Len(parts) = 2 THEN parseTwoParts(parts)
    ELSE IF Len(parts) # 1 THEN None
    ELSE Some(parseLocals(parts))

\* lines 116-136: the provider family is read off baseId
parseBaseId(l) ==
    LET baseId == l.baseId
    IN IF startsWith(baseId, S_tt)
       THEN IF Len(baseId) <= 2 THEN None
            ELSE Some([l EXCEPT !.imdbId = baseId])
       ELSE IF startsWith(baseId, S_imdb) /\ Len(baseId) > 4
            THEN LET rest == substring(baseId, 4)
                 IN Some([l EXCEPT !.imdbId = IF startsWith(rest, S_tt) THEN rest
                                               ELSE S_tt \o rest])
       ELSE IF startsWith(baseId, S_tmdb) /\ Len(baseId) > 4
            THEN Some([l EXCEPT !.tmdbId = substring(baseId, 4)])
       ELSE IF startsWith(baseId, S_tvdb) /\ Len(baseId) > 4
            THEN Some([l EXCEPT !.tvdbId = substring(baseId, 4)])
       ELSE IF startsWith(baseId, S_anidb) /\ Len(baseId) > 5
            THEN Some([l EXCEPT !.anidbId = substring(baseId, 5)])
       ELSE None

\* parseMediaId(idOrExternalId): Some(record) or None (the null return)
parseMediaId(id) ==
    IF id = NULL \/ id = <<>> THEN None
    ELSE LET l == parseSegments(split(id))
         IN IF l = None THEN None ELSE parseBaseId(l[1])

-----------------------------------------------------------------------------
(* commonClient.js: _isMatchingProviderId                                   *)
(*                                                                         *)
(* A JavaScript object is a function from its own property names to values; *)
(* a property value is a string [t |-> "str"], a number [t |-> "num"] or    *)
(* undefined (the property is absent).                                      *)

Str(s) == [t |-> "str", s |-> s, n |-> 0]
NumV(k) == [t |-> "num", s |-> <<>>, n |-> k]
Undefined == [t |-> "undefined", s |-> <<>>, n |-> 0]

\* obj.key
Get(obj, key) == IF key \in DOMAIN obj THEN obj[key] ELSE Undefined

\* v === str for a string str
StrictEqualsString(v, str) == v.t = "str" /\ v.s = str

\* the truthiness of a property value
Truthy(v) == (v.t = "str" /\ v.s # <<>>) \/ (v.t = "num" /\ v.n # 0)

\* the decimal digits of a natural number
RECURSIVE decimal(_)
decimal(k) ==
    IF k < 10 THEN <<DigitChars[k + 1]>>
    ELSE decimal(k \div 10) \o <<DigitChars[(k % 10) + 1]>>

\* String(v) for a string or a non-negative integer
String(v) == IF v.t = "str" THEN v.s ELSE IF v.t = "num" THEN decimal(v.n) ELSE <<>>

K_Imdb == <<"I","m","d","b">>
K_imdb == <<"i","m","d","b">>
K_IMDB == <<"I","M","D","B">>
K_Tmdb == <<"T","m","d","b">>
K_tmdb == <<"t","m","d","b">>
K_TMDB == <<"T","M","D","B">>
K_Tvdb == <<"T","v","d","b">>
K_tvdb == <<"t","v","d","b">>
K_TVDB == <<"T","V","D","B">>
K_AniDb == <<"A","n","i","D","b">>
K_anidb == <<"a","n","i","d","b">>
K_ANIDB == <<"A","N","I","D","B">>

\* a target argument is used when it is truthy: neither null nor empty
Given(id) == id # NULL /\ id # <<>>

\* lines 31-35
matchesImdb(p, imdbIdToMatch) ==
    LET numericImdbVal == replaceFirst(imdbIdToMatch, S_tt)
    IN \/ StrictEqualsString(Get(p, K_Imdb), imdbIdToMatch)
       \/ StrictEqualsString(Get(p, K_imdb), imdbIdToMatch)
       \/ StrictEqualsString(Get(p, K_IMDB), imdbIdToMatch)
       \/ /\ numericImdbVal # <<>>
          /\ \/ StrictEqualsString(Get(p, K_Imdb), numericImdbVal)
             \/ StrictEqualsString(Get(p, K_imdb), numericImdbVal)
             \/ StrictEqualsString(Get(p, K_IMDB), numericImdbVal)

\* lines 38-42, 45-49 and 52-56: the same test for TMDb, TVDB and AniDB, on
\* the capitalised, lower-case and upper-case key of the family
matchesFamily(p, kCap, kLower, kUpper, idToMatch) ==
    \/ StrictEqualsString(Get(p, kCap), idToMatch)
    \/ StrictEqualsString(Get(p, kLower), idToMatch)
    \/ StrictEqualsString(Get(p, kUpper), idToMatch)
    \/ (Truthy(Get(p, kCap)) /\ String(Get(p, kCap)) = idToMatch)

\* _isMatchingProviderId(providerIds, imdbIdToMatch, tmdbIdToMatch,
\*                       tvdbIdToMatch, anidbIdToMatch)
_isMatchingProviderId(pids, imdbIdToMatch, tmdbIdToMatch, tvdbIdToMatch, anidbIdToMatch) ==
    IF pids = None THEN FALSE
    ELSE LET p == pids[1]
         IN \/ Given(imdbIdToMatch) /\ matchesImdb(p, imdbIdToMatch)
            \/ Given(tmdbIdToMatch) /\ matchesFamily(p, K_Tmdb, K_tmdb, K_TMDB, tmdbIdToMatch)
            \/ Given(tvdbIdToMatch) /\ matchesFamily(p, K_Tvdb, K_tvdb, K_TVDB, tvdbIdToMatch)
            \/ Given(anidbIdToMatch) /\ matchesFamily(p, K_AniDb, K_anidb, K_ANIDB, anidbIdToMatch)

-----------------------------------------------------------------------------
(* commonClient.js: getQualityTag                                           *)

\* \w of a regular expression
IsWordChar(c) ==
    \/ IsDigit(c)
    \/ c = "_"
    \/ \E i \in 1..26 : UpperChars[i] = c \/ LowerChars[i] = c

\* \b holds between s[i-1] and s[i] (either may lie outside the string)
WordBoundary(s, i) ==
    LET before == i - 1 >= 1 /\ i - 1 <= Len(s) /\ IsWordChar(s[i - 1])
        after == i >= 1 /\ i <= Len(s) /\ IsWordChar(s[i])
    IN before # after

\* the literal alternatives of the pattern at line 156, in its order
ResolutionLiterals ==
    << <<"4","k">>, <<"2","1","6","0","p">>, <<"1","4","4","0","p">>,
       <<"1","0","8","0","p">>, <<"7","2","0","p">>, <<"5","7","6","p">>,
       <<"4","8","0","p">>, <<"s","d">> >>

\* the number of decimal digits s has from position i on
RECURSIVE digitRun(_, _)
digitRun(s, i) == IF i <= Len(s) /\ IsDigit(s[i]) THEN 1 + digitRun(s, i + 1) ELSE 0

\* the length of the text (\d+k|4k|2160p|...|sd)\b matches at position i of
\* s, case-insensitively, trying the alternatives in order; 0 for no match
alternativeAt(s, i) ==
    LET low == toLowerCase(s)
        d == digitRun(low, i)
        fits(len) == i + len - 1 <= Len(low) /\ WordBoundary(low, i + len)
        lits == {a \in 1..Len(ResolutionLiterals) :
                   /\ fits(Len(ResolutionLiterals[a]))
                   /\ SubSeq(low, i, i + Len(ResolutionLiterals[a]) - 1)
                        = ResolutionLiterals[a]}
    IN IF d > 0 /\ i + d <= Len(low) /\ low[i + d] = "k" /\ fits(d + 1) THEN d + 1
       ELSE IF lits = {} THEN 0
       ELSE Len(ResolutionLiterals[CHOOSE a \in lits : \A b \in lits : a <= b])

\* displayTitle.match(/\b(\d+k|4k|2160p|1440p|1080p|720p|576p|480p|sd)\b/i):
\* group 1 of the leftmost match as Some(text), None when nothing matches
resolutionMatch(s) ==
    LET starts == {i \in 1..Len(s) : WordBoundary(s, i) /\ alternativeAt(s, i) > 0}
    IN IF starts = {} THEN None
       ELSE LET i == CHOOSE x \in starts : \A y \in starts : x <= y
            IN Some(SubSeq(s, i, i + alternativeAt(s, i) - 1))

\* lines 158-166: the tag a matched token is normalised to, NULL when the
\* chain falls through
normalizeResolution(text) ==
    LET resolution == toUpperCase(text)
    IN IF includes(resolution, <<"4","K">>) \/ includes(resolution, <<"2","1","6","0">>)
       THEN "4K"
       ELSE IF includes(resolution, <<"1","4","4","0">>) THEN "1440p"
       ELSE IF includes(resolution, <<"1","0","8","0">>) THEN "1080p"
       ELSE IF includes(resolution, <<"7","2","0">>) THEN "720p"
       ELSE IF includes(resolution, <<"5","7","6">>) THEN "576p"
       ELSE IF includes(resolution, <<"4","8","0">>) THEN "480p"
       ELSE IF includes(resolution, <<"S","D">>) THEN "SD"
       ELSE "none"

\* v >= k for a property value v: false when v is undefined
AtLeast(v, k) == v.t = "num" /\ v.n >= k

\* a ladder that tags every stream of height 2160 or more as 4K
qualityFromDimensionsTallIs4K(width, height) ==
    IF ~Truthy(width) /\ ~Truthy(height) THEN "Unknown"
    ELSE IF AtLeast(width, 3840) \/ AtLeast(height, 2160)
         THEN IF AtLeast(width, 4096) THEN "4K DCI" ELSE "4K"
    ELSE IF AtLeast(height, 1440) THEN "1440p"
    ELSE IF AtLeast(height, 1080) THEN "1080p"
    ELSE IF AtLeast(height, 720) THEN "720p"
    ELSE IF AtLeast(height, 576) THEN "576p"
    ELSE IF AtLeast(height, 480) THEN "480p"
    ELSE "SD"

\* lines 169-190: the tag computed from the dimensions
qualityFromDimensions(width, height) ==
    IF ~Truthy(width) /\ ~Truthy(height) THEN "Unknown"
    ELSE IF AtLeast(width, 3840) \/ AtLeast(height, 2160)
         THEN IF AtLeast(width, 4096) THEN "4K DCI"
              ELSE IF AtLeast(width, 3840) THEN "4K"
              ELSE "2160p"
    ELSE IF AtLeast(height, 1440) THEN "1440p"
    ELSE IF AtLeast(height, 1080) THEN "1080p"
    ELSE IF AtLeast(height, 720) THEN "720p"
    ELSE IF AtLeast(height, 576) THEN "576p"
    ELSE IF AtLeast(height, 480) THEN "480p"
    ELSE "SD"

\* getQualityTag(videoStream); a video stream is a record of its Height,
\* Width and DisplayTitle properties
getQualityTag(vs) ==
    IF vs = None THEN "Unknown"
    ELSE LET height == vs[1].Height
             width == vs[1].Width
             displayTitle == IF Truthy(vs[1].DisplayTitle) THEN vs[1].DisplayTitle.s
                             ELSE <<>>
             m == resolutionMatch(displayTitle)
             fromTitle == IF m = None THEN "none" ELSE normalizeResolution(m[1])
         IN IF fromTitle # "none" THEN fromTitle
            ELSE qualityFromDimensions(width, height)

-----------------------------------------------------------------------------
(* commonClient.js: deduplicateAndSortStreams                               *)
(*                                                                         *)
(* A stream descriptor is a record with mediaSourceId, itemId and           *)
(* mediaInfo; mediaInfo holds supportsDirectPlay, qualityTag, hdrTag        *)
(* ("null" for null), isRemux and bitrate (a number or Undefined).          *)

\* a slip in Map construction: an entry already present is kept, so the
\* first stream with an id wins
mapSetKeepsFirst(acc, stream) ==
    IF \E k \in 1..Len(acc) : acc[k].mediaSourceId = stream.mediaSourceId
    THEN acc
    ELSE Append(acc, stream)

\* Map.prototype.set(stream.mediaSourceId, stream) on the entries acc, kept
\* in insertion order: a present key keeps its place and takes the new value
mapSet(acc, stream) ==
    IF \E k \in 1..Len(acc) : acc[k].mediaSourceId = stream.mediaSourceId
    THEN [k \in 1..Len(acc) |->
            IF acc[k].mediaSourceId = stream.mediaSourceId THEN stream ELSE acc[k]]
    ELSE Append(acc, stream)

\* lines 487-489: Array.from(new Map(streams.map(s => [s.mediaSourceId, s])).values())
RECURSIVE uniqueStreams(_, _)
uniqueStreams(list, acc) ==
    IF list = <<>> THEN acc
    ELSE uniqueStreams(Tail(list), mapSet(acc, Head(list)))

\* lines 499-504: resOrder[tag] ?? 10
resOrder(tag) ==
    CASE tag = "4K DCI" -> 0
      [] tag = "4K" -> 1
      [] tag = "2160p" -> 2
      [] tag = "1440p" -> 3
      [] tag = "1080p" -> 4
      [] tag = "720p" -> 5
      [] tag = "576p" -> 6
      [] tag = "480p" -> 7
      [] tag = "360p" -> 8
      [] tag = "SD" -> 9
      [] tag = "Unknown" -> 10
      [] OTHER -> 10

\* x || 0 for a bitrate
bitrateOrZero(v) == IF Truthy(v) THEN v.n ELSE 0

\* a slip in line 505: the resolution ranks subtracted the other way round
compareStreamsResolutionReversed(a, b) ==
    LET aDirectPlay == a.mediaInfo.supportsDirectPlay
        bDirectPlay == b.mediaInfo.supportsDirectPlay
        aRes == resOrder(a.mediaInfo.qualityTag)
        bRes == resOrder(b.mediaInfo.qualityTag)
        aHdr == IF a.mediaInfo.hdrTag # "null" THEN 1 ELSE 0
        bHdr == IF b.mediaInfo.hdrTag # "null" THEN 1 ELSE 0
        aRemux == IF a.mediaInfo.isRemux THEN 1 ELSE 0
        bRemux == IF b.mediaInfo.isRemux THEN 1 ELSE 0
    IN IF aDirectPlay # bDirectPlay THEN (IF bDirectPlay THEN 1 ELSE 0 - 1)
       ELSE IF aRes # bRes THEN bRes - aRes
       ELSE IF aHdr # bHdr THEN bHdr - aHdr
       ELSE IF aRemux # bRemux THEN bRemux - aRemux
       ELSE bitrateOrZero(b.mediaInfo.bitrate) - bitrateOrZero(a.mediaInfo.bitrate)

\* lines 492-519: the comparator handed to sort
compareStreams(a, b) ==
    LET aDirectPlay == a.mediaInfo.supportsDirectPlay
        bDirectPlay == b.mediaInfo.supportsDirectPlay
        aRes == resOrder(a.mediaInfo.qualityTag)
        bRes == resOrder(b.mediaInfo.qualityTag)
        aHdr == IF a.mediaInfo.hdrTag # "null" THEN 1 ELSE 0
        bHdr == IF b.mediaInfo.hdrTag # "null" THEN 1 ELSE 0
        aRemux == IF a.mediaInfo.isRemux THEN 1 ELSE 0
        bRemux == IF b.mediaInfo.isRemux THEN 1 ELSE 0
    IN IF aDirectPlay # bDirectPlay THEN (IF bDirectPlay THEN 1 ELSE 0 - 1)
       ELSE IF aRes # bRes THEN aRes - bRes
       ELSE IF aHdr # bHdr THEN bHdr - aHdr
       ELSE IF aRemux # bRemux THEN bRemux - aRemux
       ELSE bitrateOrZero(b.mediaInfo.bitrate) - bitrateOrZero(a.mediaInfo.bitrate)

\* a slip in the insertion step: x is placed before the elements it ties
\* with, which makes the sort unstable
sortInsertBeforeTies(sorted, x) ==
    LET before == {j \in 1..Len(sorted) : compareStreams(x, sorted[j]) <= 0}
        at == IF before = {} THEN Len(sorted) + 1
              ELSE CHOOSE j \in before : \A k \in before : j <= k
    IN SubSeq(sorted, 1, at - 1) \o <<x>> \o SubSeq(sorted, at, Len(sorted))

\* one insertion of Array.prototype.sort, which is stable: x goes in front
\* of the first element it compares less than, so behind the ones it ties with
sortInsert(sorted, x) ==
    LET before == {j \in 1..Len(sorted) : compareStreams(x, sorted[j]) < 0}
        at == IF before = {} THEN Len(sorted) + 1
              ELSE CHOOSE j \in before : \A k \in before : j <= k
    IN SubSeq(sorted, 1, at - 1) \o <<x>> \o SubSeq(sorted, at, Len(sorted))

\* uniqueStreams.sort(comparator)
RECURSIVE sortStreams(_, _)
sortStreams(list, sorted) ==
    IF list = <<>> THEN sorted
    ELSE sortStreams(Tail(list), sortInsert(sorted, Head(list)))

\* deduplicateAndSortStreams(streams)
deduplicateAndSortStreams(list) ==
    IF list = <<>> THEN <<>>
    ELSE sortStreams(uniqueStreams(list, <<>>), <<>>)

-----------------------------------------------------------------------------
(* commonClient.js: the enrichment of one MediaSource                       *)
(*                                                                         *)
(* A MediaSource is a record of its Id, Container, Path, Name, Bitrate,     *)
(* Size, SupportsDirectPlay, SupportsDirectStream and MediaStreams          *)
(* properties; MediaStreams is missing, null or a list of MediaStream       *)
(* records.  Tags drawn from a fixed vocabulary are strings of the model,   *)
(* "null" standing for null; computed text is a character sequence.         *)

Missing == [t |-> "missing", list |-> << >>]
\* a MediaStreams list that holds a null element
Faulty == [t |-> "faulty", list |-> << >>]
Null == [t |-> "null", list |-> << >>]
List(l) == [t |-> "list", list |-> l]

\* the first element of l that satisfies Test, as Some(e), or None
Find(l, Test(_)) ==
    LET hits == SelectSeq(l, Test) IN IF hits = << >> THEN None ELSE Some(Head(hits))

\* lines 198-209
getResolutionDimensions(vs) ==
    IF vs = None THEN NULL
    ELSE IF Truthy(vs[1].Width) /\ Truthy(vs[1].Height)
         THEN String(vs[1].Width) \o <<"x">> \o String(vs[1].Height)
         ELSE NULL

\* lines 223-232: codecMap[codec], <<>> when the map has no such key
videoCodecMap(codec) ==
    CASE codec = <<"H","2","6","4">> -> <<"H",".","2","6","4">>
      [] codec = <<"H","2","6","5">> -> <<"H","E","V","C">>
      [] codec = <<"H","E","V","C">> -> <<"H","E","V","C">>
      [] codec = <<"V","P","8">> -> <<"V","P","8">>
      [] codec = <<"V","P","9">> -> <<"V","P","9">>
      [] codec = <<"A","V","1">> -> <<"A","V","1">>
      [] codec = <<"M","P","E","G","2","V","I","D","E","O">> -> <<"M","P","E","G","-","2">>
      [] codec = <<"V","C","1">> -> <<"V","C","-","1">>
      [] OTHER -> << >>

\* lines 216-242
getVideoTag(vs) ==
    IF vs = None THEN << >>
    ELSE LET codec == IF vs[1].Codec.t = "str" THEN toUpperCase(vs[1].Codec.s) ELSE << >>
             profile == vs[1].Profile
             displayCodec == IF videoCodecMap(codec) # << >> THEN videoCodecMap(codec)
                             ELSE codec
             tenBit == /\ Truthy(profile)
                       /\ \/ includes(profile.s, <<"M","a","i","n","1","0">>)
                          \/ includes(profile.s, <<"H","i","g","h","1","0">>)
                          \/ includes(profile.s, <<"M","a","i","n"," ","1","0">>)
         IN IF tenBit THEN displayCodec \o <<" ","1","0","b","i","t">> ELSE displayCodec

\* lines 249-269
getHdrTag(vs) ==
    IF vs = None THEN "null"
    ELSE CASE vs[1].ExtendedVideoType = "Hdr10" -> "HDR10"
           [] vs[1].ExtendedVideoType = "Hdr10Plus" -> "HDR10+"
           [] vs[1].ExtendedVideoType = "HyperLogGamma" -> "HLG"
           [] vs[1].ExtendedVideoType = "DolbyVision" -> "DV"
           [] OTHER ->
                IF vs[1].ColorTransfer = "smpte2084" THEN "HDR10"
                ELSE IF vs[1].ColorTransfer = "arib-std-b67" THEN "HLG"
                ELSE IF vs[1].IsHDR = "true" THEN "HDR"
                ELSE "null"

\* lines 283-295: codecMap[codec], <<>> when the map has no such key
audioCodecMap(codec) ==
    CASE codec = <<"A","A","C">> -> <<"A","A","C">>
      [] codec = <<"A","C","3">> -> <<"D","D">>
      [] codec = <<"E","A","C","3">> -> <<"D","D","+">>
      [] codec = <<"D","T","S">> -> <<"D","T","S">>
      [] codec = <<"D","T","S","H","D">> -> <<"D","T","S","-","H","D">>
      [] codec = <<"T","R","U","E","H","D">> -> <<"T","r","u","e","H","D">>
      [] codec = <<"F","L","A","C">> -> <<"F","L","A","C">>
      [] codec = <<"O","P","U","S">> -> <<"O","p","u","s">>
      [] codec = <<"M","P","3">> -> <<"M","P","3">>
      [] codec = <<"V","O","R","B","I","S">> -> <<"V","o","r","b","i","s">>
      [] codec = <<"P","C","M">> -> <<"P","C","M">>
      [] OTHER -> << >>

S_Unknown == <<"U","n","k","n","o","w","n">>

\* lines 276-308
getAudioTag(aus) ==
    IF aus = None THEN << >>
    ELSE LET codec == IF aus[1].Codec.t = "str" THEN toUpperCase(aus[1].Codec.s) ELSE << >>
             channels == aus[1].Channels
             displayCodec == IF audioCodecMap(codec) # << >> THEN audioCodecMap(codec)
                             ELSE IF codec # << >> THEN codec
                             ELSE S_Unknown
             channelStr == IF channels = NumV(1) THEN <<"M","o","n","o">>
                           ELSE IF channels = NumV(2) THEN <<"2",".","0">>
                           ELSE IF channels = NumV(6) THEN <<"5",".","1">>
                           ELSE IF channels = NumV(8) THEN <<"7",".","1">>
                           ELSE IF Truthy(channels) THEN String(channels) \o <<"c","h">>
                           ELSE << >>
         IN IF channelStr # << >> THEN displayCodec \o <<" ">> \o channelStr
            ELSE displayCodec

\* a slip in line 317: the container is handed on in the case it came in
getContainerTagAsIs(container) ==
    IF ~Truthy(container) THEN << >> ELSE container.s

\* lines 315-318
getContainerTag(container) ==
    IF ~Truthy(container) THEN << >> ELSE toUpperCase(container.s)

S_remux == <<"r","e","m","u","x">>

\* lines 326-334, for a source that is not null
isRemux(source) ==
    LET path == IF source.Path.t = "str" THEN toLowerCase(source.Path.s) ELSE << >>
        name == IF source.Name.t = "str" THEN toLowerCase(source.Name.s) ELSE << >>
    IN includes(path, S_remux) \/ includes(name, S_remux)

\* lines 341-345: (bps / 1000000).toFixed(1) + "Mbps", null for no bitrate
formatBitrate(bps) ==
    IF ~Truthy(bps) THEN NULL
    ELSE LET tenths == (bps.n + 50000) \div 100000
         IN decimal(tenths \div 10) \o <<".">> \o decimal(tenths % 10)
            \o <<"M","b","p","s">>

Units == << <<"B">>, <<"K","B">>, <<"M","B">>, <<"G","B">>, <<"T","B">> >>
KiB == 1024
MiB == 1048576
GiB == 1073741824

\* lines 352-367, for sizes below 2^31: the unit index the loop stops at and
\* the size rounded as toFixed does (no decimals below GB, one from GB on)
formatFileSize(bytes) ==
    IF ~Truthy(bytes) THEN NULL
    ELSE LET b == bytes.n
         IN IF b < KiB THEN decimal(b) \o Units[1]
            ELSE IF b < MiB THEN decimal((b + KiB \div 2) \div KiB) \o Units[2]
            ELSE IF b < GiB THEN decimal((b + MiB \div 2) \div MiB) \o Units[3]
            ELSE LET whole == b \div GiB
                     rest == b % GiB
                     tenths == whole * 10
                               + ((rest \div KiB) * 10 + ((rest % KiB) * 10) \div KiB
                                  + MiB \div 2) \div MiB
                 IN decimal(tenths \div 10) \o <<".">> \o decimal(tenths % 10)
                    \o Units[4]

\* the text of s behind its last / or \ (all of s when it has neither)
RECURSIVE lastPathSegment(_)
lastPathSegment(s) ==
    IF \E k \in 1..Len(s) : s[k] \in {"/", "\\"}
    THEN lastPathSegment(Tail(s))
    ELSE s

\* source.Path?.split(/[\\/]/).pop() || source.Name
fileNameOf(source) ==
    IF source.Path.t = "str" /\ lastPathSegment(source.Path.s) # << >>
    THEN Str(lastPathSegment(source.Path.s))
    ELSE source.Name

\* lines 439-456: the profile of the normal path
extractedMediaInfo(source, vs, aus) ==
    [qualityTag |-> getQualityTag(vs),
     resolutionDimensions |-> getResolutionDimensions(vs),
     videoTag |-> getVideoTag(vs),
     videoCodec |-> IF vs = None THEN Undefined ELSE vs[1].Codec,
     hdrTag |-> getHdrTag(vs),
     audioTag |-> getAudioTag(aus),
     audioCodec |-> IF aus = None THEN Undefined ELSE aus[1].Codec,
     container |-> getContainerTag(source.Container),
     isRemux |-> isRemux(source),
     bitrate |-> source.Bitrate,
     bitrateFormatted |-> formatBitrate(source.Bitrate),
     size |-> source.Size,
     sizeFormatted |-> formatFileSize(source.Size),
     filename |-> fileNameOf(source),
     supportsDirectPlay |-> source.SupportsDirectPlay = "true",
     supportsDirectStream |-> source.SupportsDirectStream = "true"]

S_stream == <<"s","t","r","e","a","m">>

\* lines 462-474: the profile of the catch block; source may be null
fallbackMediaInfo(source) ==
    [qualityTag |-> "Unknown",
     resolutionDimensions |-> NULL,
     videoTag |-> << >>,
     hdrTag |-> "null",
     audioTag |-> << >>,
     container |-> IF source # None /\ Truthy(source[1].Container)
                   THEN toUpperCase(source[1].Container.s) ELSE S_Unknown,
     isRemux |-> FALSE,
     bitrateFormatted |-> NULL,
     sizeFormatted |-> NULL,
     filename |-> IF source # None /\ Truthy(fileNameOf(source[1]))
                  THEN fileNameOf(source[1]) ELSE Str(S_stream),
     supportsDirectPlay |-> source # None /\ source[1].SupportsDirectPlay = "true"]

\* the try block of lines 438-456 throws: on a null source at the read of
\* source.Container, and in getQualityTag at displayTitle.match when the
\* DisplayTitle of the video stream is a number
extractionThrows(source, vs) ==
    source = None \/ (vs # None /\ vs[1].DisplayTitle.t = "num" /\ vs[1].DisplayTitle.n # 0)

\* safeExtractMediaInfo(source, videoStream, audioStream)
safeExtractMediaInfo(source, vs, aus) ==
    IF extractionThrows(source, vs) THEN fallbackMediaInfo(source)
    ELSE extractedMediaInfo(source[1], vs, aus)

-----------------------------------------------------------------------------
(* jellyfinClient.js: getPlaybackStreams, the processing of one MediaSource *)

\* source.MediaStreams?.find / ?.filter: on a missing or null MediaStreams
\* the optional chain yields undefined
streamsOf(source) == IF source.MediaStreams.t = "list" THEN source.MediaStreams.list ELSE << >>

\* line 254
videoStreamOf(source) == Find(streamsOf(source), LAMBDA ms : ms.Type = "Video")

\* lines 257-258
audioStreamOf(source) ==
    LET default == Find(streamsOf(source), LAMBDA ms : ms.Type = "Audio" /\ ms.IsDefault)
    IN IF default # None THEN default
       ELSE Find(streamsOf(source), LAMBDA ms : ms.Type = "Audio")

\* line 261
subtitleStreamsOf(source) == SelectSeq(streamsOf(source), LAMBDA ms : ms.Type = "Subtitle")

\* String(Object) and String(Object.prototype), what the template literal of
\* line 302 makes of the two values below
S_functionObject ==
    <<"f","u","n","c","t","i","o","n"," ","O","b","j",
      "e","c","t","(",")"," ","{"," ","[","n","a","t","i","v","e"," ","c","o","d","e","]"," ","}">>
S_objectObject == <<"[","o","b","j","e","c","t"," ","O","b","j","e","c","t","]">>

\* CODEC_FORMAT_MAP[codec] || 'srt' (commonClient.js lines 8-13): the lookup
\* of a plain object also finds what Object.prototype holds under the key,
\* the function Object under "constructor" and the prototype itself under
\* "__proto__", both truthy
subtitleFormat(codec) ==
    CASE codec = <<"s","u","b","r","i","p">> -> <<"s","r","t">>
      [] codec = <<"w","e","b","v","t","t">> -> <<"v","t","t">>
      [] codec = <<"a","s","s">> -> <<"a","s","s">>
      [] codec = <<"s","s","a">> -> <<"s","s","a">>
      [] codec = <<"c","o","n","s","t","r","u","c","t","o","r">> -> S_functionObject
      [] codec = <<"_","_","p","r","o","t","o","_","_">> -> S_objectObject
      [] OTHER -> <<"s","r","t">>

S_und == <<"u","n","d">>

\* lines 295-304: one subtitle entry; its id and url are determined by the
\* item, the source, the index of the stream and the format
subtitleOf(item, source, sub) ==
    [itemId |-> item.Id,
     mediaSourceId |-> source.Id,
     index |-> sub.Index,
     lang |-> IF Truthy(sub.Language) THEN sub.Language.s ELSE S_und,
     format |-> subtitleFormat(IF sub.Codec.t = "str" THEN toLowerCase(sub.Codec.s)
                               ELSE << >>)]

\* lines 252-327: the descriptor pushed for a source; of its fields the
\* model keeps the ids, the container, the subtitles and mediaInfo
processedSource(item, source) ==
    LET subs == subtitleStreamsOf(source)
    IN [mediaSourceId |-> source.Id,
        itemId |-> item.Id,
        container |-> source.Container,
        subtitles |-> [k \in 1..Len(subs) |-> subtitleOf(item, source, subs[k])],
        mediaInfo |-> safeExtractMediaInfo(Some(source), videoStreamOf(source),
                                           audioStreamOf(source))]

Pushed(d) == [kind |-> "pushed", detail |-> Some(d)]
Threw == [kind |-> "threw", detail |-> None]
Dropped == [kind |-> "dropped", detail |-> None]
NotProcessed == [kind |-> "none", detail |-> None]

\* lines 251-333, one pass of the loop body: a null element of MediaSources
\* throws at line 254, and the catch block throws again at line 330 when it
\* reads source.Id; a null element of MediaStreams throws in the callback of
\* find at line 254, and the catch block goes on to the next source
processSource(item, source) ==
    IF source = None THEN Threw
    ELSE IF source[1].MediaStreams.t = "faulty" THEN Dropped
    ELSE Pushed(processedSource(item, source[1]))

NotCalled == [kind |-> "none", list |-> << >>]

\* lines 251-341: the loop over the MediaSources and what the function
\* returns after it; "rejected" when an exception leaves the function
RECURSIVE playbackLoop(_, _, _)
playbackLoop(item, sources, array) ==
    IF sources = << >>
    THEN IF Len(array) = 0 THEN [kind |-> "null", list |-> << >>]
         ELSE [kind |-> "list", list |-> array]
    ELSE LET done == processSource(item, Head(sources))
         IN IF done.kind = "threw" THEN [kind |-> "rejected", list |-> << >>]
            ELSE IF done.kind = "dropped" THEN playbackLoop(item, Tail(sources), array)
            ELSE playbackLoop(item, Tail(sources), Append(array, done.detail[1]))

\* getPlaybackStreams lines 245-341 on the MediaSources of the response
getPlaybackStreams(item, sources) == playbackLoop(item, sources, << >>)

-----------------------------------------------------------------------------
(* ssrfGuard.js: assertPublicHost                                           *)
(*                                                                         *)
(* An IPv4 address is its four octets, an IPv6 address its eight 16-bit     *)
(* groups; an address object of the ip-address library adds the length of   *)
(* the subnet mask (32 or 128 when the text carries no /n suffix).  A host  *)
(* name or a DNS answer is the text of an IPv4 address, the text of an IPv6 *)
(* address (dotted when its tail is written as an IPv4 address, bracketed   *)
(* as URL.hostname gives it) or a domain name.                              *)

Address4(octets, subnetMask) == [octets |-> octets, subnetMask |-> subnetMask]
Address6(groups, subnetMask) == [octets |-> groups, subnetMask |-> subnetMask]

RECURSIVE Pow2(_)
Pow2(n) == IF n = 0 THEN 1 ELSE 2 * Pow2(n - 1)

\* the first n bits of the groups of an address, w bits a group: whole groups
\* as they are, the group the mask ends in shifted down, the rest dropped
maskBits(groups, w, n) ==
    [k \in 1..Len(groups) |->
        IF w * k <= n THEN groups[k]
        ELSE IF w * (k - 1) >= n THEN 0
        ELSE groups[k] \div Pow2(w * k - n)]

\* ip-address, this.isInSubnet(address): this lies in the subnet of address
isInSubnet(this, address, w) ==
    IF this.subnetMask < address.subnetMask THEN FALSE
    ELSE maskBits(this.octets, w, address.subnetMask)
         = maskBits(address.octets, w, address.subnetMask)

\* lines 4-11
privateRangesv4 ==
    << Address4(<<10, 0, 0, 0>>, 8), Address4(<<172, 16, 0, 0>>, 12),
       Address4(<<192, 168, 0, 0>>, 16), Address4(<<127, 0, 0, 0>>, 8),
       Address4(<<169, 254, 0, 0>>, 16), Address4(<<0, 0, 0, 0>>, 8) >>

\* lines 13-15: range.isInSubnet(addr), the range being the receiver
isPrivateIPv4(addr) ==
    \E r \in 1..Len(privateRangesv4) : isInSubnet(privateRangesv4[r], addr, 8)

rangeLinkLocal == Address6(<<65152, 0, 0, 0, 0, 0, 0, 0>>, 10)
rangeUniqueLocal == Address6(<<64512, 0, 0, 0, 0, 0, 0, 0>>, 7)
Loopback6 == <<0, 0, 0, 0, 0, 0, 0, 1>>

\* the IPv4 address in the last 32 bits of an IPv6 address (to4)
to4(groups) ==
    Address4(<<groups[7] \div 256, groups[7] % 256, groups[8] \div 256, groups[8] % 256>>, 32)

\* lines 17-29; dotted is addr.is4()
isPrivateIPv6(groups, dotted) ==
    IF groups = Loopback6 THEN TRUE
    ELSE IF dotted THEN isPrivateIPv4(to4(groups))
    ELSE LET addr == Address6(groups, 128)
         IN isInSubnet(addr, rangeLinkLocal, 16) \/ isInSubnet(addr, rangeUniqueLocal, 16)

V4(octets) == [form |-> "v4", groups |-> octets, dotted |-> FALSE, bracketed |-> FALSE]
V6(groups, dotted) == [form |-> "v6", groups |-> groups, dotted |-> dotted, bracketed |-> FALSE]
Bracketed(h) == [h EXCEPT !.bracketed = TRUE]
DomainName == [form |-> "name", groups |-> << >>, dotted |-> FALSE, bracketed |-> FALSE]

\* lines 31-42: text with a colon goes to Address6, any other to Address4.
\* A bracket is no character of an IPv6 address and a domain name is no IPv4
\* address.  Releases 6 and later of ip-address throw from the constructor
\* on such text (errors = "thrown"), earlier ones record the error on the
\* object (errors = "recorded"): isLoopback then throws on the IPv6 object,
\* which has no parsed groups, and an IPv4 object goes to isPrivateIPv4 with
\* the default mask of 32.  The catch answers true.
isPrivateIP(ipStr, errors) ==
    IF ipStr.form = "v6"
    THEN IF ipStr.bracketed THEN TRUE ELSE isPrivateIPv6(ipStr.groups, ipStr.dotted)
    ELSE IF ipStr.form = "v4" THEN isPrivateIPv4(Address4(ipStr.groups, 32))
    ELSE IF errors = "thrown" THEN TRUE
    ELSE isPrivateIPv4(Address4(<<0, 0, 0, 0>>, 32))

Accepted == "returned"
InvalidUrl == "Invalid URL format"
BadProtocol == "URL must use http or https protocol"
PrivateHost == "Private or local IP addresses are not allowed"
Unresolved == "Could not resolve hostname to verify IP safety"
PrivateResolved == "Hostname resolves to a private or local IP"

\* lines 58-72: what assertPublicHost throws before it resolves the host,
\* "none" when it goes on to resolveHostToIPs; URL gives an http or https
\* URL a host that is not empty, so line 69 never throws
thrownBeforeResolve(url, errors) ==
    IF ~url.wellFormed THEN InvalidUrl
    ELSE IF url.protocol \notin {"http:", "https:"} THEN BadProtocol
    ELSE IF isPrivateIP(url.hostname, errors) THEN PrivateHost
    ELSE "none"

\* lines 74-82
afterResolve(addresses, errors) ==
    IF Len(addresses) = 0 THEN Unresolved
    ELSE IF \E k \in 1..Len(addresses) : isPrivateIP(addresses[k], errors) THEN PrivateResolved
    ELSE Accepted

-----------------------------------------------------------------------------
(* jellyfinClient.js: the remote server                                     *)
(*                                                                         *)
(* makeApiRequest resolves to the response data or, on any transport fault  *)
(* or non-success status, to null.  The library of the server is fixed; a   *)
(* catalog query may return any items of it (the server's filters are not   *)
(* exact), a seasons, episodes or playback-info query returns what the      *)
(* library holds for the item, and every request may fail.                  *)

Obj1(k, v) == (k :> v)
Obj2(k1, v1, k2, v2) == (k1 :> v1) @@ (k2 :> v2)

S_1 == <<"1">>
S_2 == <<"2">>
S_7 == <<"7">>

Movies ==
    { [Id |-> "i1", Type |-> "Movie", IndexNumber |-> 0, ParentIndexNumber |-> 0,
       ProviderIds |-> Some(Obj1(K_Imdb, Str(S_tt \o S_1)))],
      [Id |-> "i2", Type |-> "Movie", IndexNumber |-> 0, ParentIndexNumber |-> 0,
       ProviderIds |-> Some(Obj2(K_imdb, Str(S_1), K_Tmdb, NumV(7)))],
      [Id |-> "i3", Type |-> "Movie", IndexNumber |-> 0, ParentIndexNumber |-> 0,
       ProviderIds |-> Some(Obj1(K_Imdb, Str(S_tt \o S_2)))] }

Series ==
    { [Id |-> "s1", Type |-> "Series", IndexNumber |-> 0, ParentIndexNumber |-> 0,
       ProviderIds |-> Some(Obj1(K_Imdb, Str(S_tt \o S_1)))],
      [Id |-> "s2", Type |-> "Series", IndexNumber |-> 0, ParentIndexNumber |-> 0,
       ProviderIds |-> Some(Obj1(K_IMDB, Str(S_tt \o S_1)))],
      [Id |-> "s3", Type |-> "Series", IndexNumber |-> 0, ParentIndexNumber |-> 0,
       ProviderIds |-> None] }

Item(id, type, index, parentIndex) ==
    [Id |-> id, Type |-> type, IndexNumber |-> index, ParentIndexNumber |-> parentIndex,
     ProviderIds |-> None]

\* the seasons the library holds for a series
SeasonsOf(seriesId) ==
    CASE seriesId = "s1" -> << Item("s1-1", "Season", 1, 0), Item("s1-2", "Season", 2, 0) >>
      [] seriesId = "s2" -> << Item("s2-1", "Season", 1, 0) >>
      [] OTHER -> << >>

\* the episodes the library holds for a season
EpisodesOf(seasonId) ==
    CASE seasonId = "s1-1" -> << Item("e111", "Episode", 1, 1), Item("e112", "Episode", 2, 1) >>
      [] seasonId = "s1-2" -> << Item("e121", "Episode", 1, 2) >>
      [] seasonId = "s2-1" -> << Item("e211", "Episode", 1, 1) >>
      [] OTHER -> << >>

Video(width, height, title) ==
    Some([Height |-> height, Width |-> width, DisplayTitle |-> title])

Source(id, directPlay, video, hdr, remux, bitrate) ==
    [Id |-> id, SupportsDirectPlay |-> directPlay, VideoStream |-> video,
     Hdr |-> hdr, Remux |-> remux, Bitrate |-> bitrate]

SourceM1 == Source("m1", TRUE, Video(NumV(3840), NumV(2160), Str(<<"4","K">>)),
                   "HDR10", TRUE, NumV(9))
SourceM2 == Source("m2", TRUE, Video(NumV(1920), NumV(1080), Undefined),
                   "null", FALSE, NumV(5))
SourceM3 == Source("m3", FALSE, None, "null", FALSE, Undefined)

\* the MediaSources the library holds for a movie or an episode; the
\* duplicate catalog entries i1 and i2, and the same episode under the two
\* series, share a source
MediaSourcesOf(itemId) ==
    CASE itemId = "i1" -> << SourceM1, SourceM2 >>
      [] itemId = "i2" -> << SourceM2, SourceM3 >>
      [] itemId = "e111" -> << SourceM1, SourceM2 >>
      [] itemId = "e211" -> << SourceM2 >>
      [] itemId = "e112" -> << SourceM3 >>
      [] OTHER -> << >>

\* the lists of at most n distinct members of set
RECURSIVE DistinctLists(_, _)
DistinctLists(set, n) ==
    IF n = 0 THEN {<<>>}
    ELSE DistinctLists(set, n - 1) \cup
         {Append(l, x) : l \in DistinctLists(set, n - 1), x \in set} 

NoRepeat(l) == \A a, b \in 1..Len(l) : a # b => l[a] # l[b]

\* what makeApiRequest resolves to: null, or data with an Items or
\* MediaSources list; "broken" is data whose list holds a null element
Failure == [kind |-> "null", list |-> <<>>]
Data(list) == [kind |-> "data", list |-> list]
Broken == [kind |-> "broken", list |-> <<>>]

CatalogResponses(universe) ==
    {Failure, Broken} \cup
    {Data(l) : l \in {x \in DistinctLists(universe, MaxItems) : NoRepeat(x)}}

\* the requests of the client
Request(kind, arg) == [kind |-> kind, arg |-> arg]

Responses(req) ==
    CASE req.kind = "MovieDirect" -> CatalogResponses(Movies)
      [] req.kind = "MovieAny" -> CatalogResponses(Movies)
      [] req.kind = "SeriesDirect" -> CatalogResponses(Series)
      [] req.kind = "SeriesAny" -> CatalogResponses(Series)
      [] req.kind = "Seasons" -> {Failure, Data(SeasonsOf(req.arg[1]))}
      [] req.kind = "Episodes" -> {Failure, Data(EpisodesOf(req.arg[1]))}
      [] req.kind = "PlaybackInfo" -> {Failure, Broken, Data(MediaSourcesOf(req.arg[1]))}

-----------------------------------------------------------------------------
(* jellyfinClient.js: getStream and the functions it awaits.  An action is  *)
(* the code that runs from one resumption to the next await: it consumes    *)
(* the response of the request in flight and runs on until the next         *)
(* request is issued or the promise settles.                                *)

Pending == [kind |-> "pending", list |-> <<>>]
ReturnedNull == [kind |-> "null", list |-> <<>>]
Returned(list) == [kind |-> "list", list |-> list]
Rejected == [kind |-> "rejected", list |-> <<>>]

\* the promise of jellyfinClient.js settles with out, that of embyClient.js
\* with embyOut
SettleBoth(out, embyOut) ==
    /\ outcome' = out
    /\ embyOutcome' = embyOut
    /\ pc' = "done"
    /\ inflight' = None
    /\ UNCHANGED requests

\* the promise settles with out; the lines that return null or throw are the
\* same in the two clients
Settle(out) == SettleBoth(out, out)

\* makeApiRequest is awaited with req; the function resumes at next
Await(req, next) ==
    /\ inflight' = Some(req)
    /\ requests' = Append(requests, req)
    /\ pc' = next
    /\ UNCHANGED <<outcome, embyOutcome>>

\* a filter that lets every item of the answer through
matchesOfUnverified(items, p) == items

\* Items.filter(i => common._isMatchingProviderId(i.ProviderIds, ...))
matchesOf(items, p) ==
    SelectSeq(items, LAMBDA i :
        _isMatchingProviderId(i.ProviderIds, p.imdbId, p.tmdbId, p.tvdbId, p.anidbId))

\* findMovieItem lines 87-98: anyProviderIdFormats
anyProviderIdFormats(p) ==
    IF Given(p.imdbId)
    THEN LET numericImdbId == replaceFirst(p.imdbId, S_tt)
         IN << K_imdb \o <<".">> \o p.imdbId, K_Imdb \o <<".">> \o p.imdbId >>
            \o (IF numericImdbId # p.imdbId
                THEN << K_imdb \o <<".">> \o numericImdbId,
                        K_Imdb \o <<".">> \o numericImdbId >>
                ELSE << >>)
    ELSE IF Given(p.tmdbId)
    THEN << K_tmdb \o <<".">> \o p.tmdbId, K_Tmdb \o <<".">> \o p.tmdbId >>
    ELSE IF Given(p.tvdbId)
    THEN << K_tvdb \o <<".">> \o p.tvdbId, K_Tvdb \o <<".">> \o p.tvdbId >>
    ELSE IF Given(p.anidbId)
    THEN << K_anidb \o <<".">> \o p.anidbId, K_AniDb \o <<".">> \o p.anidbId >>
    ELSE << >>

\* findSeriesItem lines 155-159: anyProviderIdValue
anyProviderIdValue(p) ==
    IF Given(p.imdbId) THEN K_imdb \o <<".">> \o p.imdbId
    ELSE IF Given(p.tmdbId) THEN K_tmdb \o <<".">> \o p.tmdbId
    ELSE IF Given(p.tvdbId) THEN K_tvdb \o <<".">> \o p.tvdbId
    ELSE IF Given(p.anidbId) THEN K_anidb \o <<".">> \o p.anidbId
    ELSE NULL

\* the id the direct lookup of Strategy A filters on (lines 71-74, 141-144)
directLookupId(p) ==
    IF Given(p.imdbId) THEN p.imdbId
    ELSE IF Given(p.tmdbId) THEN p.tmdbId
    ELSE IF Given(p.tvdbId) THEN p.tvdbId
    ELSE IF Given(p.anidbId) THEN p.anidbId
    ELSE NULL

\* getPlaybackStreams lines 251-327: the descriptor of one MediaSource
streamDetails(item, source) ==
    [mediaSourceId |-> source.Id,
     itemId |-> item.Id,
     mediaInfo |-> [supportsDirectPlay |-> source.SupportsDirectPlay = TRUE,
                    qualityTag |-> getQualityTag(source.VideoStream),
                    hdrTag |-> source.Hdr,
                    isRemux |-> source.Remux,
                    bitrate |-> source.Bitrate]]

\* getPlaybackStreams lines 243-341 on the playback-info response: the
\* descriptors, or <<>> for the null it returns when there is no MediaSource
playbackStreams(item, resp) ==
    IF resp.kind # "data" THEN << >>
    ELSE [k \in 1..Len(resp.list) |-> streamDetails(item, resp.list[k])]

PlaybackRequest(item) == Request("PlaybackInfo", <<item.Id>>)
SeasonsRequest(series) == Request("Seasons", <<series.Id>>)

\* embyClient.js lines 373-391: getQualityTag, from the height, or from the
\* width over 1.78 rounded when there is no height
embyGetQualityTag(vs) ==
    IF vs = None THEN "Unknown"
    ELSE LET height == vs[1].Height
             width == vs[1].Width
             effectiveHeight == IF Truthy(height) THEN height.n
                                ELSE (200 * width.n + 178) \div 356
         IN IF ~Truthy(height) /\ ~Truthy(width) THEN "Unknown"
            ELSE IF effectiveHeight >= 2160 THEN "4K"
            ELSE IF effectiveHeight >= 1440 THEN "1440p"
            ELSE IF effectiveHeight >= 1080 THEN "1080p"
            ELSE IF effectiveHeight >= 720 THEN "720p"
            ELSE IF effectiveHeight >= 576 THEN "576p"
            ELSE IF effectiveHeight >= 480 THEN "480p"
            ELSE "SD"

\* embyClient.js lines 691-774: the descriptor of one MediaSource; of
\* mediaInfo the model keeps what the sort of lines 782-798 reads
embyStreamDetails(item, source) ==
    [mediaSourceId |-> source.Id,
     itemId |-> item.Id,
     mediaInfo |-> [supportsDirectPlay |-> source.SupportsDirectPlay = TRUE,
                    qualityTag |-> embyGetQualityTag(source.VideoStream),
                    bitrate |-> source.Bitrate]]

\* embyClient.js lines 788-790: resOrder.indexOf(tag)
embyResOrder(tag) ==
    CASE tag = "4K" -> 0
      [] tag = "1440p" -> 1
      [] tag = "1080p" -> 2
      [] tag = "720p" -> 3
      [] tag = "576p" -> 4
      [] tag = "480p" -> 5
      [] tag = "SD" -> 6
      [] tag = "Unknown" -> 7
      [] OTHER -> 0 - 1

\* embyClient.js lines 782-798: the comparator handed to sort
embyCompareStreams(a, b) ==
    LET aDirectPlay == a.mediaInfo.supportsDirectPlay
        bDirectPlay == b.mediaInfo.supportsDirectPlay
        aResIndex == embyResOrder(a.mediaInfo.qualityTag)
        bResIndex == embyResOrder(b.mediaInfo.qualityTag)
    IN IF aDirectPlay /\ ~bDirectPlay THEN 0 - 1
       ELSE IF ~aDirectPlay /\ bDirectPlay THEN 1
       ELSE IF aResIndex # bResIndex THEN aResIndex - bResIndex
       ELSE bitrateOrZero(b.mediaInfo.bitrate) - bitrateOrZero(a.mediaInfo.bitrate)

\* one insertion of the stable sort of line 782
embySortInsert(sorted, x) ==
    LET before == {j \in 1..Len(sorted) : embyCompareStreams(x, sorted[j]) < 0}
        at == IF before = {} THEN Len(sorted) + 1
              ELSE CHOOSE j \in before : \A k \in before : j <= k
    IN SubSeq(sorted, 1, at - 1) \o <<x>> \o SubSeq(sorted, at, Len(sorted))

\* embyClient.js line 782: streamDetailsArray.sort(comparator)
RECURSIVE embySortStreams(_, _)
embySortStreams(list, sorted) ==
    IF list = <<>> THEN sorted
    ELSE embySortStreams(Tail(list), embySortInsert(sorted, Head(list)))

\* embyClient.js lines 675-800, getPlaybackStreams on the playback-info
\* response: the descriptors, sorted, or <<>> for the null it returns
embyPlaybackStreams(item, resp) ==
    IF resp.kind # "data" THEN << >>
    ELSE embySortStreams([k \in 1..Len(resp.list) |-> embyStreamDetails(item, resp.list[k])],
                         << >>)

\* getStream lines 393-403 and 418-422: the loop is over.  embyClient.js
\* lines 858 and 880 return allStreams as it stands
Finish(all) ==
    IF Len(all) > 0
    THEN SettleBoth(Returned(deduplicateAndSortStreams(all)),
                    IF Len(embyAllStreams') > 0 THEN Returned(embyAllStreams')
                    ELSE ReturnedNull)
    ELSE SettleBoth(ReturnedNull,
                    IF Len(embyAllStreams') > 0 THEN Returned(embyAllStreams')
                    ELSE ReturnedNull)

\* getStream lines 410-422, entered with the items of findMovieItem
MovieItemsFound(items) ==
    /\ foundItems' = items
    /\ formats' = << >>
    /\ allStreams' = << >>
    /\ IF Len(items) > 0
       THEN cursor' = 1 /\ Await(PlaybackRequest(items[1]), "playbackMovie")
       ELSE cursor' = 0 /\ Settle(ReturnedNull)

\* a Strategy B that sends the queries of all its formats at once
MovieNextFormatAllAtOnce(items, rest) ==
    IF rest # << >>
    THEN /\ foundItems' = items
         /\ formats' = << >>
         /\ inflight' = Some(Request("MovieAny", Head(rest)))
         /\ requests' = requests \o [k \in 1..Len(rest) |-> Request("MovieAny", rest[k])]
         /\ pc' = "movieB"
         /\ UNCHANGED <<cursor, allStreams, outcome, embyOutcome>>
    ELSE MovieItemsFound(items)

\* findMovieItem lines 100-116: the next format of Strategy B is queried, or
\* the function returns when none is left
MovieNextFormat(items, rest) ==
    IF rest # << >>
    THEN /\ foundItems' = items
         /\ formats' = Tail(rest)
         /\ Await(Request("MovieAny", Head(rest)), "movieB")
         /\ UNCHANGED <<cursor, allStreams>>
    ELSE MovieItemsFound(items)

\* getStream lines 380-407, entered with the series of findSeriesItem
SeriesItemsFound(series) ==
    /\ foundItems' = series
    /\ allStreams' = << >>
    /\ failedSeries' = 0
    /\ IF Len(series) > 0
       THEN cursor' = 1 /\ Await(SeasonsRequest(series[1]), "seasons")
       ELSE cursor' = 0 /\ Settle(ReturnedNull)

\* a loop over the series that ends at the first series without the episode
NextSeriesStopsAtMiss(all, failed) ==
    /\ allStreams' = all
    /\ failedSeries' = failed
    /\ IF cursor < Len(foundItems) /\ failed = failedSeries
       THEN cursor' = cursor + 1 /\ Await(SeasonsRequest(foundItems[cursor + 1]), "seasons")
       ELSE cursor' = cursor /\ Finish(all)

\* getStream lines 384-403: the body of the loop over the series is done
NextSeries(all, failed) ==
    /\ allStreams' = all
    /\ failedSeries' = failed
    /\ IF cursor < Len(foundItems)
       THEN cursor' = cursor + 1 /\ Await(SeasonsRequest(foundItems[cursor + 1]), "seasons")
       ELSE cursor' = cursor /\ Finish(all)

-----------------------------------------------------------------------------
(* The composite ids handed to parseMediaId: a head segment followed by up  *)
(* to MaxSegments - 1 further segments.                                     *)

HeadSegments ==
    { <<>>, S_tt, S_tt \o <<"1">>, S_tt \o <<"1","0","0">>,
      S_tmdb \o <<"7">>, S_tvdb \o <<"9">>, S_anidb \o <<"3">>,
      S_imdb \o <<"5">>, S_imdb, S_tmdb, S_tvdb, S_anidb,
      <<"I","M","D","B">>, <<"T","m","d","b">>, <<"T","T","1">>,
      <<"k","i","t","s","u","4">> }

TailSegments ==
    { <<>>, <<"1">>, <<"0">>, <<"2">>, <<"-","1">>, <<"1","x">>, <<"x">>,
      <<" ","3">>, S_tt, S_tt \o <<"5">>, <<"7">> }

RECURSIVE TailLists(_)
TailLists(n) ==
    IF n = 0 THEN {<<>>}
    ELSE TailLists(n - 1) \cup
         {Append(t, x) : t \in TailLists(n - 1), x \in TailSegments}

SegmentLists ==
    {<<h>> \o t : h \in HeadSegments, t \in TailLists(MaxSegments - 1)}

\* parseMediaId is called with a composite id, or with no id at all
ParseInit ==
    /\ segments \in SegmentLists \cup {<<>>}
    /\ idOrExternalId = IF segments = <<>> THEN NULL ELSE joinColon(segments)
    /\ parsedId = None
    /\ parsePc = "call"

\* one call of parseMediaId
ParseCall ==
    /\ parsePc = "call"
    /\ parsedId' = parseMediaId(idOrExternalId)
    /\ parsePc' = "returned"
    /\ UNCHANGED <<segments, idOrExternalId>>
    /\ UNCHANGED <<matchVars, qualityVars, dedupVars, streamVars, enrichVars, guardVars, routeVars>>

ParseNext == ParseCall


-----------------------------------------------------------------------------
(* The ProviderIds objects and targets handed to _isMatchingProviderId.     *)

\* property names a server may use for the four families: the three casings
\* the matcher reads, and one more casing of each
ProviderKeys ==
    { K_Imdb, K_imdb, K_IMDB, <<"I","m","D","b">>,
      K_Tmdb, K_tmdb, K_TMDB, <<"T","m","D","b">>,
      K_Tvdb, K_tvdb, K_TVDB, <<"T","v","D","b">>,
      K_AniDb, K_anidb, K_ANIDB, <<"A","n","i","d","b">> }

S_100 == <<"1","0","0">>
S_200 == <<"2","0","0">>

ProviderValues == { Str(S_tt \o S_100), Str(S_100), Str(S_200), NumV(100) }

ProviderIdObjects ==
    UNION { [ks -> ProviderValues] :
              ks \in {k \in SUBSET ProviderKeys : Cardinality(k) <= MaxProviderKeys} }

TargetValues == { S_tt \o S_100, S_100, S_200 }

NoTargets == [imdb |-> NULL, tmdb |-> NULL, tvdb |-> NULL, anidb |-> NULL]

\* the callers pass the ids of one parsed record: at most one is non-null
Targets ==
    {NoTargets}
    \cup {[NoTargets EXCEPT !.imdb = v] : v \in TargetValues}
    \cup {[NoTargets EXCEPT !.tmdb = v] : v \in TargetValues}
    \cup {[NoTargets EXCEPT !.tvdb = v] : v \in TargetValues}
    \cup {[NoTargets EXCEPT !.anidb = v] : v \in TargetValues}

MatchInit ==
    /\ providerIds \in {None} \cup {Some(p) : p \in ProviderIdObjects}
    /\ targetIds \in Targets
    /\ matchResult = FALSE
    /\ matchPc = "call"

\* one call of _isMatchingProviderId
MatchCall ==
    /\ matchPc = "call"
    /\ matchResult' = _isMatchingProviderId(providerIds, targetIds.imdb, targetIds.tmdb,
                                            targetIds.tvdb, targetIds.anidb)
    /\ matchPc' = "returned"
    /\ UNCHANGED <<providerIds, targetIds>>
    /\ UNCHANGED <<parseVars, qualityVars, dedupVars, streamVars, enrichVars, guardVars, routeVars>>

MatchNext == MatchCall


-----------------------------------------------------------------------------
(* The video streams handed to getQualityTag.                               *)

TitleWords ==
    { <<"4","K">>, <<"1","0","8","0","p">>, <<"7","2","0","P">>, <<"S","D">>,
      <<"2","1","6","0","p">>, <<"1","4","4","0","p">>, <<"5","7","6","p">>,
      <<"4","8","0","p">>,
      <<"8","k">>, <<"1","4","k">>, <<"H","E","V","C">>, <<"S","D","R">>,
      <<"x","7","2","0","p">>, <<"4","K","-","H","D","R">> }

RECURSIVE Titles(_)
Titles(n) ==
    IF n = 0 THEN {<<>>}
    ELSE Titles(n - 1) \cup
         {IF t = <<>> THEN w ELSE t \o <<" ">> \o w : t \in Titles(n - 1), w \in TitleWords}

Widths == {Undefined, NumV(0), NumV(1280), NumV(1920), NumV(3840), NumV(4096)}
Heights == {Undefined, NumV(0), NumV(360), NumV(480), NumV(576), NumV(720),
            NumV(1080), NumV(1440), NumV(2160)}

VideoStreams ==
    [Height : Heights, Width : Widths,
     DisplayTitle : {Undefined} \cup {Str(t) : t \in Titles(MaxTitleWords)}]

QualityInit ==
    /\ videoStream \in {None} \cup {Some(v) : v \in VideoStreams}
    /\ qualityTag = "none"
    /\ qualityPc = "call"

\* one call of getQualityTag
QualityCall ==
    /\ qualityPc = "call"
    /\ qualityTag' = getQualityTag(videoStream)
    /\ qualityPc' = "returned"
    /\ UNCHANGED videoStream
    /\ UNCHANGED <<parseVars, matchVars, dedupVars, streamVars, enrichVars, guardVars, routeVars>>

QualityNext == QualityCall

-----------------------------------------------------------------------------
(* The stream lists handed to deduplicateAndSortStreams.                    *)

MediaInfo(dp, tag, hdr, remux, bitrate) ==
    [supportsDirectPlay |-> dp, qualityTag |-> tag, hdrTag |-> hdr,
     isRemux |-> remux, bitrate |-> bitrate]

\* profiles that differ in one key of the ranking at a time
MediaProfiles ==
    { MediaInfo(TRUE, "4K", "HDR10", TRUE, NumV(9)),
      MediaInfo(TRUE, "4K", "null", TRUE, NumV(9)),
      MediaInfo(TRUE, "4K", "null", FALSE, NumV(9)),
      MediaInfo(TRUE, "4K", "null", FALSE, NumV(5)),
      MediaInfo(TRUE, "1080p", "null", FALSE, NumV(9)),
      MediaInfo(FALSE, "4K DCI", "DV", TRUE, NumV(9)),
      MediaInfo(TRUE, "Unknown", "null", FALSE, Undefined) }

SourceIds == {"m1", "m2", "m3"}

StreamUniverse ==
    {[mediaSourceId |-> m, itemId |-> "i1", mediaInfo |-> p] :
        m \in SourceIds, p \in MediaProfiles}

RECURSIVE StreamLists(_)
StreamLists(n) ==
    IF n = 0 THEN {<<>>}
    ELSE StreamLists(n - 1) \cup
         {Append(l, x) : l \in StreamLists(n - 1), x \in StreamUniverse}

DedupInit ==
    /\ streams \in StreamLists(MaxStreams)
    /\ dedupOut = <<>>
    /\ dedupAgain = <<>>
    /\ dedupPc = "call"

\* deduplicateAndSortStreams is called on the input list
DedupCall ==
    /\ dedupPc = "call"
    /\ dedupOut' = deduplicateAndSortStreams(streams)
    /\ dedupPc' = "returned"
    /\ UNCHANGED <<streams, dedupAgain>>
    /\ UNCHANGED <<parseVars, matchVars, qualityVars, streamVars, enrichVars, guardVars, routeVars>>

\* deduplicateAndSortStreams is called on its own output
DedupCallAgain ==
    /\ dedupPc = "returned"
    /\ dedupAgain' = deduplicateAndSortStreams(dedupOut)
    /\ dedupPc' = "again"
    /\ UNCHANGED <<streams, dedupOut>>
    /\ UNCHANGED <<parseVars, matchVars, qualityVars, streamVars, enrichVars, guardVars, routeVars>>

DedupNext == DedupCall \/ DedupCallAgain

-----------------------------------------------------------------------------
(* The calls of getStream.                                                  *)

S_url == <<"h">>
S_user == <<"u">>
S_token == <<"k">>

\* config is absent, or an object any of whose three fields may be missing
Configs ==
    {None} \cup
    {Some(c) : c \in [serverUrl : {NULL, S_url}, userId : {NULL, S_user},
                      accessToken : {NULL, S_token}]}

\* a movie by IMDb id, a movie by TMDb id in the two-segment form, two
\* episodes, an unsupported id and an id with a non-numeric season
StreamIds ==
    { S_tt \o S_1,
      joinColon(<<S_tmdb, S_7>>),
      joinColon(<<S_tt \o S_1, S_1, S_1>>),
      joinColon(<<S_tt \o S_1, S_1, S_2>>),
      joinColon(<<S_tt \o S_1, S_2, S_1>>),
      <<"k","i","t","s","u","4">>,
      joinColon(<<S_tt \o S_1, <<"x">>, S_1>>) }

StreamInit ==
    /\ config \in Configs
    /\ compositeId \in StreamIds
    /\ pc = "entry"
    /\ parsed = None
    /\ foundItems = << >>
    /\ formats = << >>
    /\ cursor = 0
    /\ targetSeason = None
    /\ episode = None
    /\ allStreams = << >>
    /\ failedSeries = 0
    /\ inflight = None
    /\ requests = << >>
    /\ outcome = Pending
    /\ directMatches = None
    /\ answers = << >>
    /\ embyAllStreams = << >>
    /\ embyOutcome = Pending

\* a test of the configuration that does not look at the access token
configurationMissingButToken(c) == c.serverUrl = NULL \/ c.userId = NULL

\* line 356: !config.serverUrl || !config.userId || !config.accessToken
configurationMissing(c) == c.serverUrl = NULL \/ c.userId = NULL \/ c.accessToken = NULL

\* lines 353-379: from the call to the first await.  The configuration test
\* of line 356 stands before the try block: with config absent it throws a
\* TypeError that nothing catches, and the promise is rejected
GetStreamEntry ==
    /\ pc = "entry"
    /\ IF config = None
       THEN /\ Settle(Rejected)
            /\ UNCHANGED <<parsed, foundItems>>
       ELSE IF configurationMissing(config[1])
       THEN /\ Settle(ReturnedNull)
            /\ UNCHANGED <<parsed, foundItems>>
       ELSE LET p == parseMediaId(compositeId)
            IN /\ parsed' = p
               /\ foundItems' = << >>
               /\ IF p = None THEN Settle(ReturnedNull)
                  ELSE IF p[1].itemType = ITEM_TYPE_MOVIE
                  THEN Await(Request("MovieDirect", directLookupId(p[1])), "movieA")
                  ELSE Await(Request("SeriesDirect", directLookupId(p[1])), "seriesA")
    /\ UNCHANGED <<config, compositeId, formats, cursor, targetSeason, episode,
                   allStreams, failedSeries>>
    /\ UNCHANGED <<directMatches, answers, embyAllStreams>>
    /\ UNCHANGED <<pureVars, enrichVars, guardVars, routeVars>>

\* a Strategy B that runs whatever Strategy A found
strategyBAlways(found) == TRUE

\* lines 86 and 154: foundItems.length === 0, the test Strategy B stands under
strategyBNeeded(found) == Len(found) = 0

\* findMovieItem lines 76-99: the response of Strategy A
MovieDirectResponse ==
    /\ pc = "movieA"
    /\ \E resp \in Responses(inflight[1]) :
         /\ answers' = Append(answers, resp.kind)
         /\ UNCHANGED embyAllStreams
         /\ IF resp.kind = "broken"
            THEN /\ Settle(ReturnedNull)
                 /\ UNCHANGED <<foundItems, formats, cursor, allStreams, directMatches>>
            ELSE LET matches == matchesOf(resp.list, parsed[1])
                 IN /\ directMatches' = Some(matches)
                    /\ IF strategyBNeeded(matches)
                       THEN MovieNextFormat(matches, anyProviderIdFormats(parsed[1]))
                       ELSE MovieItemsFound(matches)
    /\ UNCHANGED <<config, compositeId, parsed, targetSeason, episode, failedSeries>>
    /\ UNCHANGED <<pureVars, enrichVars, guardVars, routeVars>>

\* findMovieItem lines 108-115: the response of one Strategy B query
MovieAnyResponse ==
    /\ pc = "movieB"
    /\ \E resp \in Responses(inflight[1]) :
         /\ answers' = Append(answers, resp.kind)
         /\ UNCHANGED embyAllStreams
         /\ IF resp.kind = "broken"
            THEN Settle(ReturnedNull) /\ UNCHANGED <<foundItems, formats, cursor, allStreams>>
            ELSE MovieNextFormat(foundItems \o matchesOf(resp.list, parsed[1]), formats)
    /\ UNCHANGED <<config, compositeId, parsed, targetSeason, episode, failedSeries>>
    /\ UNCHANGED directMatches
    /\ UNCHANGED <<pureVars, enrichVars, guardVars, routeVars>>

\* a loop over the matched movies that ends at the first movie whose
\* playback info gave no stream
NextItemStopsWhenEmpty(all) ==
    /\ allStreams' = all
    /\ IF cursor < Len(foundItems) /\ all # allStreams
       THEN /\ cursor' = cursor + 1
            /\ Await(PlaybackRequest(foundItems[cursor + 1]), "playbackMovie")
       ELSE cursor' = cursor /\ Finish(all)

\* getStream lines 413-418: the body of the loop over the matched movies is
\* done
NextItem(all) ==
    /\ allStreams' = all
    /\ IF cursor < Len(foundItems)
       THEN /\ cursor' = cursor + 1
            /\ Await(PlaybackRequest(foundItems[cursor + 1]), "playbackMovie")
       ELSE cursor' = cursor /\ Finish(all)

\* getStream lines 413-418: the playback info of one matched movie; a null
\* element of MediaSources makes getPlaybackStreams throw (line 330), and
\* the catch of lines 424-431 returns null
MoviePlaybackResponse ==
    /\ pc = "playbackMovie"
    /\ \E resp \in Responses(inflight[1]) :
         /\ answers' = Append(answers, resp.kind)
         /\ embyAllStreams' = embyAllStreams \o embyPlaybackStreams(foundItems[cursor], resp)
         /\ IF resp.kind = "broken"
            THEN Settle(ReturnedNull) /\ UNCHANGED <<cursor, allStreams>>
            ELSE NextItem(allStreams \o playbackStreams(foundItems[cursor], resp))
    /\ UNCHANGED <<config, compositeId, parsed, foundItems, formats, targetSeason,
                   episode, failedSeries>>
    /\ UNCHANGED directMatches
    /\ UNCHANGED <<pureVars, enrichVars, guardVars, routeVars>>

\* findSeriesItem lines 145-166: the response of Strategy A
SeriesDirectResponse ==
    /\ pc = "seriesA"
    /\ \E resp \in Responses(inflight[1]) :
         /\ answers' = Append(answers, resp.kind)
         /\ UNCHANGED embyAllStreams
         /\ IF resp.kind = "broken"
            THEN Settle(ReturnedNull)
                 /\ UNCHANGED <<foundItems, cursor, allStreams, failedSeries, directMatches>>
            ELSE LET matches == matchesOf(resp.list, parsed[1])
                 IN /\ directMatches' = Some(matches)
                    /\ IF strategyBNeeded(matches)
                       THEN /\ Await(Request("SeriesAny", anyProviderIdValue(parsed[1])), "seriesB")
                            /\ foundItems' = matches
                            /\ UNCHANGED <<cursor, allStreams, failedSeries>>
                       ELSE SeriesItemsFound(matches)
    /\ UNCHANGED <<config, compositeId, parsed, formats, targetSeason, episode>>
    /\ UNCHANGED <<pureVars, enrichVars, guardVars, routeVars>>

\* findSeriesItem lines 166-176: the response of Strategy B
SeriesAnyResponse ==
    /\ pc = "seriesB"
    /\ \E resp \in Responses(inflight[1]) :
         /\ answers' = Append(answers, resp.kind)
         /\ UNCHANGED embyAllStreams
         /\ IF resp.kind = "broken"
            THEN Settle(ReturnedNull)
                 /\ UNCHANGED <<foundItems, cursor, allStreams, failedSeries>>
            ELSE SeriesItemsFound(foundItems \o matchesOf(resp.list, parsed[1]))
    /\ UNCHANGED <<config, compositeId, parsed, formats, targetSeason, episode>>
    /\ UNCHANGED directMatches
    /\ UNCHANGED <<pureVars, enrichVars, guardVars, routeVars>>

\* findEpisodeItem lines 190-209: the seasons of the current series
SeasonsResponse ==
    /\ pc = "seasons"
    /\ \E resp \in Responses(inflight[1]) :
         /\ answers' = Append(answers, resp.kind)
         /\ UNCHANGED embyAllStreams
         /\ LET hits == {k \in 1..Len(resp.list) :
                           resp.list[k].IndexNumber = parsed[1].seasonNumber.n}
            IN IF hits = {}
               THEN /\ targetSeason' = None
                    /\ NextSeries(allStreams, failedSeries + 1)
               ELSE LET season == resp.list[CHOOSE k \in hits : \A j \in hits : k <= j]
                    IN /\ targetSeason' = Some(season)
                       /\ Await(Request("Episodes", <<season.Id>>), "episodes")
                       /\ UNCHANGED <<cursor, allStreams, failedSeries>>
    /\ episode' = None
    /\ UNCHANGED <<config, compositeId, parsed, foundItems, formats>>
    /\ UNCHANGED directMatches
    /\ UNCHANGED <<pureVars, enrichVars, guardVars, routeVars>>

\* findEpisodeItem lines 209-224 and getStream lines 385-391: the episodes of
\* the target season
EpisodesResponse ==
    /\ pc = "episodes"
    /\ \E resp \in Responses(inflight[1]) :
         /\ answers' = Append(answers, resp.kind)
         /\ UNCHANGED embyAllStreams
         /\ LET hits == {k \in 1..Len(resp.list) :
                           /\ resp.list[k].IndexNumber = parsed[1].episodeNumber.n
                           /\ resp.list[k].ParentIndexNumber = parsed[1].seasonNumber.n}
            IN IF hits = {}
               THEN /\ episode' = None
                    /\ NextSeries(allStreams, failedSeries + 1)
               ELSE LET ep == resp.list[CHOOSE k \in hits : \A j \in hits : k <= j]
                    IN /\ episode' = Some(ep)
                       /\ Await(PlaybackRequest(ep), "playbackEpisode")
                       /\ UNCHANGED <<cursor, allStreams, failedSeries>>
    /\ UNCHANGED <<config, compositeId, parsed, foundItems, formats, targetSeason>>
    /\ UNCHANGED directMatches
    /\ UNCHANGED <<pureVars, enrichVars, guardVars, routeVars>>

\* getStream lines 387-388: the playback info of the episode found; a null
\* element of MediaSources ends the run as it does for a movie
EpisodePlaybackResponse ==
    /\ pc = "playbackEpisode"
    /\ \E resp \in Responses(inflight[1]) :
         /\ answers' = Append(answers, resp.kind)
         /\ embyAllStreams' = embyAllStreams \o embyPlaybackStreams(episode[1], resp)
         /\ IF resp.kind = "broken"
            THEN Settle(ReturnedNull) /\ UNCHANGED <<cursor, allStreams, failedSeries>>
            ELSE NextSeries(allStreams \o playbackStreams(episode[1], resp),
                            failedSeries)
    /\ UNCHANGED <<config, compositeId, parsed, foundItems, formats, targetSeason, episode>>
    /\ UNCHANGED directMatches
    /\ UNCHANGED <<pureVars, enrichVars, guardVars, routeVars>>

-----------------------------------------------------------------------------
(* The MediaSources handed to safeExtractMediaInfo and to the loop of       *)
(* getPlaybackStreams.                                                      *)

MediaStream(type, isDefault, codec, index) ==
    [Type |-> type, IsDefault |-> isDefault, Codec |-> codec, Index |-> index,
     Profile |-> Undefined, Width |-> Undefined, Height |-> Undefined,
     DisplayTitle |-> Undefined, ExtendedVideoType |-> "undefined",
     ColorTransfer |-> "undefined", IsHDR |-> "undefined", Channels |-> Undefined,
     Language |-> Undefined]

VideoMain ==
    [MediaStream("Video", TRUE, Str(<<"h","e","v","c">>), 0) EXCEPT
        !.Profile = Str(<<"M","a","i","n","1","0">>), !.Width = NumV(3840),
        !.Height = NumV(2160), !.DisplayTitle = Str(<<"4","K">>),
        !.ExtendedVideoType = "Hdr10"]
VideoPlain ==
    [MediaStream("Video", TRUE, Str(<<"h","2","6","4">>), 0) EXCEPT
        !.Width = NumV(1920), !.Height = NumV(1080), !.ColorTransfer = "arib-std-b67"]
AudioFirst ==
    [MediaStream("Audio", FALSE, Str(<<"a","a","c">>), 1) EXCEPT
        !.Channels = NumV(2), !.Language = Str(<<"e","n","g">>)]
AudioDefault ==
    [MediaStream("Audio", TRUE, Str(<<"e","a","c","3">>), 2) EXCEPT !.Channels = NumV(6)]
SubSrt ==
    [MediaStream("Subtitle", FALSE, Str(<<"S","u","b","R","i","p">>), 3) EXCEPT
        !.Language = Str(<<"e","n","g">>)]
SubAss == MediaStream("Subtitle", FALSE, Str(<<"a","s","s">>), 4)
SubPgs == MediaStream("Subtitle", FALSE, Undefined, 5)
SubVtt ==
    [MediaStream("Subtitle", FALSE, Str(<<"W","e","b","V","T","T">>), 6) EXCEPT
        !.Language = Str(<< >>)]
SubSsa ==
    [MediaStream("Subtitle", TRUE, Str(<<"S","S","A">>), 7) EXCEPT
        !.Language = Str(<<"g","e","r">>)]
SubInherited ==
    [MediaStream("Subtitle", FALSE, Str(<<"C","o","n","s","t","r","u","c","t","o","r">>), 8) EXCEPT
        !.Language = Str(<<"f","r","e">>)]

MediaStreamLists ==
    { Missing, Null, List(<< >>), List(<<VideoPlain>>), List(<<AudioFirst>>),
      List(<<AudioFirst, VideoMain, AudioDefault, SubSrt>>),
      List(<<SubAss, SubPgs, VideoPlain>>), List(<<SubVtt, AudioFirst, SubSsa>>),
      List(<<SubInherited>>) }

S_mkv == <<"m","k","v">>
S_path == <<"/","m","/","a",".","R","e","m","u","x",".","m","k","v">>
S_name == <<"n">>

MediaSources ==
    [Id : {"m1"},
     Container : {Undefined, Str(S_mkv)},
     Path : {Undefined, Str(S_path), Str(<<"/","m","/">>)},
     Name : {Undefined, Str(S_name)},
     Bitrate : {Undefined, NumV(0), NumV(8249000)},
     Size : {Undefined, NumV(1500), NumV(1500000000)},
     SupportsDirectPlay : {"true", "false"},
     SupportsDirectStream : {"true", "undefined"},
     MediaStreams : MediaStreamLists]

EnrichItem == Item("i1", "Movie", 0, 0)

\* a well-formed source with two subtitle streams
SourceGood ==
    [Id |-> "m1", Container |-> Str(S_mkv), Path |-> Str(S_path), Name |-> Str(S_name),
     Bitrate |-> NumV(8249000), Size |-> NumV(1500), SupportsDirectPlay |-> "true",
     SupportsDirectStream |-> "true", MediaStreams |-> List(<<SubAss, SubPgs, VideoPlain>>)]

\* a source whose video stream carries a number as DisplayTitle
SourceOddTitle ==
    [SourceGood EXCEPT !.Id = "m2",
                       !.MediaStreams = List(<<[VideoPlain EXCEPT !.DisplayTitle = NumV(5)]>>)]

\* a source whose MediaStreams list holds a null element
SourceFaulty == [SourceGood EXCEPT !.Id = "m3", !.MediaStreams = Faulty]

\* the MediaSources of a playback-info response: up to MaxSources elements,
\* each a source or null
SiblingSources == {None, Some(SourceGood), Some(SourceOddTitle), Some(SourceFaulty)}

RECURSIVE SourceLists(_)
SourceLists(n) ==
    IF n = 0 THEN {<< >>}
    ELSE SourceLists(n - 1) \cup
         {Append(l, x) : l \in SourceLists(n - 1), x \in SiblingSources}

\* either one source is handed to safeExtractMediaInfo and to the loop body,
\* or a list of sources to the whole loop
EnrichInit ==
    /\ mediaInfo = None
    /\ streamDetail = NotProcessed
    /\ streamDetailsArray = NotCalled
    /\ \/ /\ mediaSource \in {None} \cup {Some(s) : s \in MediaSources}
          /\ mediaSources = << >>
          /\ enrichPc = "call"
       \/ /\ mediaSource = None
          /\ mediaSources \in SourceLists(MaxSources) \ {<< >>}
          /\ enrichPc = "loop"

\* one call of safeExtractMediaInfo, with the streams getPlaybackStreams
\* would pick (none for a null source)
ExtractCall ==
    /\ enrichPc = "call"
    /\ mediaInfo' = Some(IF mediaSource = None THEN safeExtractMediaInfo(None, None, None)
                         ELSE safeExtractMediaInfo(mediaSource,
                                                   videoStreamOf(mediaSource[1]),
                                                   audioStreamOf(mediaSource[1])))
    /\ enrichPc' = "extracted"
    /\ UNCHANGED <<mediaSource, streamDetail, mediaSources, streamDetailsArray>>
    /\ UNCHANGED <<pureVars, streamVars, guardVars, routeVars>>

\* one pass of the loop of getPlaybackStreams over mediaSource
ProcessSource ==
    /\ enrichPc = "call"
    /\ streamDetail' = processSource(EnrichItem, mediaSource)
    /\ enrichPc' = "processed"
    /\ UNCHANGED <<mediaSource, mediaInfo, mediaSources, streamDetailsArray>>
    /\ UNCHANGED <<pureVars, streamVars, guardVars, routeVars>>

\* getPlaybackStreams on a response that holds mediaSources
PlaybackLoop ==
    /\ enrichPc = "loop"
    /\ streamDetailsArray' = getPlaybackStreams(EnrichItem, mediaSources)
    /\ enrichPc' = "looped"
    /\ UNCHANGED <<mediaSource, mediaInfo, streamDetail, mediaSources>>
    /\ UNCHANGED <<pureVars, streamVars, guardVars, routeVars>>

EnrichNext == ExtractCall \/ ProcessSource \/ PlaybackLoop

-----------------------------------------------------------------------------
(* The server URLs handed to assertPublicHost, and what the resolver holds  *)
(* for the host.                                                            *)

PublicV4 == { V4(<<24, 1, 2, 3>>), V4(<<172, 32, 0, 1>>) }
PrivateV4 ==
    { V4(<<10, 0, 0, 5>>), V4(<<172, 16, 0, 1>>), V4(<<192, 168, 1, 5>>),
      V4(<<127, 0, 0, 1>>), V4(<<169, 254, 1, 1>>) }
PublicV6 == { V6(<<9734, 18176, 18176, 0, 0, 0, 0, 4369>>, FALSE) }
PrivateV6 ==
    { V6(Loopback6, FALSE), V6(<<65152, 0, 0, 0, 0, 0, 0, 1>>, FALSE),
      V6(<<64768, 0, 0, 0, 0, 0, 0, 1>>, FALSE) }

Hostnames ==
    PublicV4 \cup PrivateV4 \cup {Bracketed(h) : h \in PublicV6 \cup PrivateV6}
    \cup {DomainName}

ServerUrls ==
    { [wellFormed |-> FALSE, protocol |-> "", hostname |-> DomainName] } \cup
    [wellFormed : {TRUE}, protocol : {"http:", "https:", "ftp:"}, hostname : Hostnames]

\* the A and the AAAA records the resolver answers with, none when the
\* lookup fails
AnswersV4 == { V4(<<24, 1, 2, 3>>), V4(<<10, 0, 0, 5>>), V4(<<127, 0, 0, 1>>) }
AnswersV6 ==
    PublicV6 \cup { V6(Loopback6, FALSE), V6(<<65152, 0, 0, 0, 0, 0, 0, 1>>, FALSE),
                     V6(<<0, 0, 0, 0, 0, 65535, 2560, 5>>, TRUE) }

DnsRecords ==
    [v4 : DistinctLists(AnswersV4, MaxAnswers), v6 : DistinctLists(AnswersV6, MaxAnswers)]

GuardInit ==
    /\ serverUrl \in ServerUrls
    /\ dnsRecords \in DnsRecords
    /\ addressErrors \in {"thrown", "recorded"}
    /\ ips = << >>
    /\ guardOutcome = "pending"
    /\ guardPc = "call"

\* lines 57-73 and 44-47: from the call to the await of dns.resolve4
AssertEntry ==
    /\ guardPc = "call"
    /\ IF thrownBeforeResolve(serverUrl, addressErrors) # "none"
       THEN guardOutcome' = thrownBeforeResolve(serverUrl, addressErrors) /\ guardPc' = "done"
       ELSE guardOutcome' = guardOutcome /\ guardPc' = "resolve4"
    /\ UNCHANGED <<serverUrl, dnsRecords, addressErrors, ips>>
    /\ UNCHANGED <<pureVars, streamVars, enrichVars, routeVars>>

\* lines 47-51: the A records arrive and dns.resolve6 is awaited
Resolve4Done ==
    /\ guardPc = "resolve4"
    /\ ips' = dnsRecords.v4
    /\ guardPc' = "resolve6"
    /\ UNCHANGED <<serverUrl, dnsRecords, addressErrors, guardOutcome>>
    /\ UNCHANGED <<pureVars, streamVars, enrichVars, routeVars>>

\* lines 51-54 and 74-82: the AAAA records arrive and the addresses are tested
Resolve6Done ==
    /\ guardPc = "resolve6"
    /\ ips' = ips \o dnsRecords.v6
    /\ guardOutcome' = afterResolve(ips', addressErrors)
    /\ guardPc' = "done"
    /\ UNCHANGED <<serverUrl, dnsRecords, addressErrors>>
    /\ UNCHANGED <<pureVars, streamVars, enrichVars, routeVars>>

GuardNext == AssertEntry \/ Resolve4Done \/ Resolve6Done

-----------------------------------------------------------------------------
(* index.js: the stream route, serving a Jellyfin configuration             *)

\* lines 77-113: shouldFilterStream(stream, hideStreamTypes)
shouldFilterStream(stream, hideStreamTypes) ==
    LET quality == stream.mediaInfo.qualityTag
        hdr == stream.mediaInfo.hdrTag
        hides(type) == \E k \in 1..Len(hideStreamTypes) : hideStreamTypes[k] = type
    IN \/ hides("4K") /\ quality \in {"4K", "4K DCI", "2160p"}
       \/ hides("1080p") /\ quality = "1080p"
       \/ hides("DV") /\ hdr \in {"DV", "DolbyVision"}
       \/ hides("HDR") /\ hdr \in {"HDR", "HDR10", "HDR10+", "HLG", "DV", "DolbyVision"}

\* the cfg segment of the path does not decode, or decodes to a configuration
RouteConfigs ==
    {None} \cup
    {Some(c) : c \in [serverUrl : {NULL, S_url}, userId : {NULL, S_user},
                      accessToken : {NULL, S_token},
                      hideStreamTypes : {<< >>, <<"4K">>, <<"HDR", "1080p">>}]}

NoResponse == [kind |-> "none", streams |-> << >>]
Respond(list) == [kind |-> "json", streams |-> list]

RouteInit ==
    /\ routeRequest \in [cfg : RouteConfigs, id : StreamIds]
    /\ response = NoResponse
    /\ routePc = "request"

\* lines 153-168: the configuration is decoded and tested, and getStream of
\* the client is called
RouteEntry ==
    /\ routePc = "request"
    /\ LET cfg == routeRequest.cfg
       IN IF \/ cfg = None
             \/ cfg[1].serverUrl = NULL \/ cfg[1].userId = NULL \/ cfg[1].accessToken = NULL
          THEN /\ response' = Respond(<< >>)
               /\ routePc' = "responded"
               /\ UNCHANGED <<config, compositeId, pc>>
          ELSE /\ config' = Some([serverUrl |-> cfg[1].serverUrl, userId |-> cfg[1].userId,
                                  accessToken |-> cfg[1].accessToken])
               /\ compositeId' = routeRequest.id
               /\ pc' = "entry"
               /\ routePc' = "awaiting"
               /\ UNCHANGED response
    /\ UNCHANGED <<routeRequest, parsed, foundItems, formats, cursor, targetSeason, episode,
                   allStreams, failedSeries, inflight, requests, outcome, directMatches,
                   answers, embyAllStreams, embyOutcome>>
    /\ UNCHANGED <<pureVars, enrichVars, guardVars>>

\* lines 168-214: the promise of getStream has settled; a rejection is caught
\* and answered with no streams
RouteRespond ==
    /\ routePc = "awaiting"
    /\ pc = "done"
    /\ response' = Respond(IF outcome.kind = "list"
                           THEN SelectSeq(outcome.list, LAMBDA s :
                                    ~shouldFilterStream(s, routeRequest.cfg[1].hideStreamTypes))
                           ELSE << >>)
    /\ routePc' = "responded"
    /\ UNCHANGED routeRequest
    /\ UNCHANGED <<pureVars, streamVars, enrichVars, guardVars>>

-----------------------------------------------------------------------------
(* Specifications.  Each one runs one function; the variables of the        *)
(* others stay at rest.                                                     *)

ParseAtRest ==
    segments = << >> /\ idOrExternalId = NULL /\ parsedId = None /\ parsePc = "rest"
MatchAtRest ==
    providerIds = None /\ targetIds = NoTargets /\ matchResult = FALSE /\ matchPc = "rest"
QualityAtRest ==
    videoStream = None /\ qualityTag = "none" /\ qualityPc = "rest"
DedupAtRest ==
    streams = << >> /\ dedupOut = << >> /\ dedupAgain = << >> /\ dedupPc = "rest"
StreamAtRest ==
    /\ config = None /\ compositeId = NULL /\ pc = "rest" /\ parsed = None
    /\ foundItems = << >> /\ formats = << >> /\ cursor = 0 /\ targetSeason = None
    /\ episode = None /\ allStreams = << >> /\ failedSeries = 0 /\ inflight = None
    /\ requests = << >> /\ outcome = Pending /\ directMatches = None /\ answers = << >>
    /\ embyAllStreams = << >> /\ embyOutcome = Pending

EnrichAtRest ==
    /\ mediaSource = None /\ mediaInfo = None /\ streamDetail = NotProcessed
    /\ enrichPc = "rest" /\ mediaSources = << >> /\ streamDetailsArray = NotCalled
GuardAtRest ==
    /\ serverUrl = [wellFormed |-> FALSE, protocol |-> "", hostname |-> DomainName]
    /\ dnsRecords = [v4 |-> << >>, v6 |-> << >>] /\ addressErrors = "thrown" /\ ips = << >>
    /\ guardOutcome = "pending" /\ guardPc = "rest"
RouteAtRest ==
    /\ routeRequest = [cfg |-> None, id |-> NULL] /\ response = NoResponse
    /\ routePc = "rest"
OthersAtRest == EnrichAtRest /\ GuardAtRest /\ RouteAtRest

Init ==
    /\ StreamInit /\ ParseAtRest /\ MatchAtRest /\ QualityAtRest /\ DedupAtRest
    /\ OthersAtRest

Next ==
    \/ GetStreamEntry
    \/ MovieDirectResponse
    \/ MovieAnyResponse
    \/ MoviePlaybackResponse
    \/ SeriesDirectResponse
    \/ SeriesAnyResponse
    \/ SeasonsResponse
    \/ EpisodesResponse
    \/ EpisodePlaybackResponse

\* getStream of jellyfinClient.js against the server
Spec == Init /\ [][Next]_vars

\* parseMediaId on its own
InitParse == ParseInit /\ MatchAtRest /\ QualityAtRest /\ DedupAtRest /\ StreamAtRest /\ OthersAtRest
SpecParse == InitParse /\ [][ParseNext]_vars

\* _isMatchingProviderId on its own
InitMatch == MatchInit /\ ParseAtRest /\ QualityAtRest /\ DedupAtRest /\ StreamAtRest /\ OthersAtRest
SpecMatch == InitMatch /\ [][MatchNext]_vars

\* getQualityTag on its own
InitQuality == QualityInit /\ ParseAtRest /\ MatchAtRest /\ DedupAtRest /\ StreamAtRest /\ OthersAtRest
SpecQuality == InitQuality /\ [][QualityNext]_vars

\* deduplicateAndSortStreams on its own
InitDedup == DedupInit /\ ParseAtRest /\ MatchAtRest /\ QualityAtRest /\ StreamAtRest /\ OthersAtRest
SpecDedup == InitDedup /\ [][DedupNext]_vars

\* either a call of deduplicateAndSortStreams on its own or a call of getStream
InitDedupOrStream == InitDedup \/ Init
NextDedupOrStream == DedupNext \/ Next
SpecDedupOrStream == InitDedupOrStream /\ [][NextDedupOrStream]_vars

\* safeExtractMediaInfo and the loop body of getPlaybackStreams on their own
InitEnrich ==
    /\ EnrichInit /\ ParseAtRest /\ MatchAtRest /\ QualityAtRest /\ DedupAtRest
    /\ StreamAtRest /\ GuardAtRest /\ RouteAtRest
SpecEnrich == InitEnrich /\ [][EnrichNext]_vars

\* assertPublicHost on its own
InitGuard ==
    /\ GuardInit /\ ParseAtRest /\ MatchAtRest /\ QualityAtRest /\ DedupAtRest
    /\ StreamAtRest /\ EnrichAtRest /\ RouteAtRest
SpecGuard == InitGuard /\ [][GuardNext]_vars

\* the stream route of index.js, calling getStream
InitRoute ==
    /\ RouteInit /\ ParseAtRest /\ MatchAtRest /\ QualityAtRest /\ DedupAtRest
    /\ StreamAtRest /\ EnrichAtRest /\ GuardAtRest
RouteNext == RouteEntry \/ RouteRespond \/ Next
SpecRoute == InitRoute /\ [][RouteNext]_vars

-----------------------------------------------------------------------------
(* The composite-id grammar as the specification words it, for the claims   *)
(* about parseMediaId.                                                      *)

\* the integer a segment denotes when it is, in its entirety, an integer
\* literal; the literals among TailSegments
IntegerLiterals == { <<"0">>, <<"1">>, <<"2">>, <<"7">>, <<"-","1">> }
IntegerLiteralValue(seg) ==
    CASE seg = <<"0">> -> 0
      [] seg = <<"1">> -> 1
      [] seg = <<"2">> -> 2
      [] seg = <<"7">> -> 7
      [] seg = <<"-","1">> -> 0 - 1

\* a bare one-segment id: tt, tmdb, tvdb or anidb followed by a non-empty tail
BareFamily(b) ==
    IF startsWith(b, S_tt) /\ Len(b) > 2 THEN "imdb"
    ELSE IF startsWith(b, S_tmdb) /\ Len(b) > 4 THEN "tmdb"
    ELSE IF startsWith(b, S_tvdb) /\ Len(b) > 4 THEN "tvdb"
    ELSE IF startsWith(b, S_anidb) /\ Len(b) > 5 THEN "anidb"
    ELSE "none"

\* the record r carries exactly the provider id the bare id b denotes
CarriesBareId(r, b) ==
    CASE BareFamily(b) = "imdb" -> r.imdbId = b
      [] BareFamily(b) = "tmdb" -> r.tmdbId = SubSeq(b, 5, Len(b))
      [] BareFamily(b) = "tvdb" -> r.tvdbId = SubSeq(b, 5, Len(b))
      [] BareFamily(b) = "anidb" -> r.anidbId = SubSeq(b, 6, Len(b))
      [] OTHER -> FALSE

IsMovieRecord(r) ==
    r.itemType = ITEM_TYPE_MOVIE /\ r.seasonNumber = NullNum /\ r.episodeNumber = NullNum

\* imdb:<v> denotes the movie with IMDb id tt<v>, or <v> when it has the tt
ImdbFormDenoted ==
    LET v == segments[2]
    IN /\ parsedId # None
       /\ parsedId[1].imdbId = (IF startsWith(v, S_tt) THEN v ELSE S_tt \o v)
       /\ IsMovieRecord(parsedId[1])

\* <base>:<s>:<e> denotes episode e of season s of the title <base>
EpisodeFormDenoted ==
    /\ parsedId # None
    /\ parsedId[1].itemType = ITEM_TYPE_EPISODE
    /\ parsedId[1].seasonNumber = Num(IntegerLiteralValue(segments[2]))
    /\ parsedId[1].episodeNumber = Num(IntegerLiteralValue(segments[3]))
    /\ CarriesBareId(parsedId[1], segments[1])

\* a bare tmdb<v>, tvdb<v> or anidb<v> denotes the movie with that id
BareFormDenoted ==
    /\ parsedId # None
    /\ CarriesBareId(parsedId[1], segments[1])
    /\ IsMovieRecord(parsedId[1])

IsEpisodeForm ==
    /\ Len(segments) = 3
    /\ BareFamily(segments[1]) # "none"
    /\ segments[2] \in IntegerLiterals
    /\ segments[3] \in IntegerLiterals

IsBareForm ==
    Len(segments) = 1 /\ BareFamily(segments[1]) \in {"tmdb", "tvdb", "anidb"}

\* C5 as stated: on every valid id parseMediaId returns what the grammar
\* denotes: imdb:<v> with any non-empty v gives imdbId tt<v> (v itself when
\* it starts with tt), kind Movie and null season and episode; <base>:<s>:<e>
\* with integer s and e gives the episode record of <base>; a bare tmdb<v>,
\* tvdb<v> or anidb<v> gives that family's id v with kind Movie.
C5_AsStated ==
    parsePc = "returned" =>
        /\ (Len(segments) = 2 /\ segments[1] = S_imdb /\ segments[2] # <<>>)
               => ImdbFormDenoted
        /\ IsEpisodeForm => EpisodeFormDenoted
        /\ IsBareForm => BareFormDenoted

\* C5 amended: as C5, except that imdb:<v> is only required to parse when v
\* is not the bare prefix tt (imdb:tt is rejected as an incomplete IMDb id).
C5_ParseDenotes ==
    parsePc = "returned" =>
        /\ (Len(segments) = 2 /\ segments[1] = S_imdb /\ segments[2] # <<>>
              /\ segments[2] # S_tt)
               => ImdbFormDenoted
        /\ IsEpisodeForm => EpisodeFormDenoted
        /\ IsBareForm => BareFormDenoted

\* an episode id with distinct season and episode was parsed
C5_Witness ==
    /\ parsePc = "returned"
    /\ segments = << S_tmdb \o <<"7">>, <<"1">>, <<"2">> >>
    /\ parsedId # None
    /\ parsedId[1].episodeNumber = Num(2)

\* C6: parseMediaId returns null for every input whose segment count is not
\* 1, 2 or 3 and for every three-segment input whose season or episode
\* segment is not entirely an integer literal.
C6_NonNumericRejected ==
    (/\ parsePc = "returned"
     /\ \/ Len(segments) \notin {1, 2, 3}
        \/ /\ Len(segments) = 3
           /\ \/ segments[2] \notin IntegerLiterals
              \/ segments[3] \notin IntegerLiterals)
    => parsedId = None

\* C7: in every record returned, itemType is Episode exactly when season and
\* episode are both non-null integers >= 0, and Movie exactly when both are
\* null.
C7_EpisodeIffSeasonEpisode ==
    (parsePc = "returned" /\ parsedId # None) =>
        LET r == parsedId[1]
            bothNatural == /\ r.seasonNumber.t = "num" /\ r.seasonNumber.n >= 0
                           /\ r.episodeNumber.t = "num" /\ r.episodeNumber.n >= 0
            bothNull == r.seasonNumber = NullNum /\ r.episodeNumber = NullNum
        IN /\ r.itemType = ITEM_TYPE_EPISODE <=> bothNatural
           /\ r.itemType = ITEM_TYPE_MOVIE <=> bothNull

\* the number of provider ids of a parsed record that are not null
ProviderIdCount(r) ==
    Cardinality({f \in {"imdb", "tmdb", "tvdb", "anidb"} :
        CASE f = "imdb" -> r.imdbId # NULL
          [] f = "tmdb" -> r.tmdbId # NULL
          [] f = "tvdb" -> r.tvdbId # NULL
          [] f = "anidb" -> r.anidbId # NULL})

\* C8: every record parseMediaId returns has exactly one of imdbId, tmdbId,
\* tvdbId, anidbId non-null.
C8_ExactlyOneProviderId ==
    (parsePc = "returned" /\ parsedId # None) => ProviderIdCount(parsedId[1]) = 1

\* a two-segment id with a mixed-case prefix and a value that itself looks
\* like an IMDb id was parsed
C8_Witness ==
    /\ parsePc = "returned"
    /\ segments = << <<"T","m","d","b">>, S_tt \o <<"5">> >>
    /\ parsedId # None

-----------------------------------------------------------------------------
(* Claims about getStream and deduplicateAndSortStreams.                    *)

\* C1: getStream never propagates an exception or a rejected promise,
\* whatever the composite id, the config (fields missing, or config itself
\* absent) and the responses of the server: it settles with a list or null.
C1_NeverRejects == outcome.kind # "rejected"

\* the positions of input that hold a stream with the id
PositionsOf(input, id) == {k \in 1..Len(input) : input[k].mediaSourceId = id}

\* output holds, for each mediaSourceId of input, exactly the last stream of
\* input with that id, and nothing else
OnePerSourceLastWins(input, output) ==
    /\ \A k \in 1..Len(input) :
         LET id == input[k].mediaSourceId
             last == CHOOSE a \in PositionsOf(input, id) :
                        \A b \in PositionsOf(input, id) : b <= a
         IN /\ Cardinality(PositionsOf(output, id)) = 1
            /\ \E o \in PositionsOf(output, id) : output[o] = input[last]
    /\ \A o \in 1..Len(output) : PositionsOf(input, output[o].mediaSourceId) # {}

\* C2: the list deduplicateAndSortStreams produces, and so every list
\* getStream returns, holds exactly one descriptor for each distinct
\* mediaSourceId of the concatenated input, the last one in input order, and
\* nothing else.
C2_OnePerMediaSource ==
    /\ dedupPc \in {"returned", "again"} => OnePerSourceLastWins(streams, dedupOut)
    /\ outcome.kind = "list" => OnePerSourceLastWins(allStreams, outcome.list)

\* getStream returned a list in which a source reached through two catalog
\* entries appears once, under the entry that came last
C2_Witness ==
    /\ outcome.kind = "list"
    /\ Len(allStreams) = 4
    /\ Len(outcome.list) = 3
    /\ \E o \in 1..3 : outcome.list[o].mediaSourceId = "m2" /\ outcome.list[o].itemId = "i2"

\* C3: deduplicateAndSortStreams is idempotent: applied to its own output it
\* returns the same list, element for element and in the same order.
C3_Idempotent == dedupPc = "again" => dedupAgain = dedupOut

\* the second call ran on an output that holds two streams the comparator
\* ties, after a duplicate was dropped
C3_Witness ==
    /\ dedupPc = "again"
    /\ Len(streams) = 3
    /\ Len(dedupOut) = 2
    /\ dedupOut[1].mediaInfo = dedupOut[2].mediaInfo

\* the ladder of resolution tags, best first
ResolutionLadder ==
    << "4K DCI", "4K", "2160p", "1440p", "1080p", "720p", "576p", "480p", "360p",
       "SD", "Unknown" >>
LadderRank(tag) == CHOOSE r \in 1..Len(ResolutionLadder) : ResolutionLadder[r] = tag

\* the lexicographic key of the ranking: smaller sorts first
RankKey(s) ==
    << IF s.mediaInfo.supportsDirectPlay THEN 0 ELSE 1,
       LadderRank(s.mediaInfo.qualityTag),
       IF s.mediaInfo.hdrTag # "null" THEN 0 ELSE 1,
       IF s.mediaInfo.isRemux THEN 0 ELSE 1,
       0 - (IF s.mediaInfo.bitrate.t = "num" THEN s.mediaInfo.bitrate.n ELSE 0) >>

\* key a is strictly smaller than key b
KeyBefore(a, b) ==
    \E k \in 1..5 : a[k] < b[k] /\ \A j \in 1..(k - 1) : a[j] = b[j]

\* C4: in the output of deduplicateAndSortStreams every stream precedes
\* every stream that ranks strictly lower under the key (direct play,
\* resolution ladder, HDR present, remux, bitrate descending), for every
\* order of the input.
C4_RankedOutput ==
    dedupPc \in {"returned", "again"} =>
        \A a, b \in 1..Len(dedupOut) :
            KeyBefore(RankKey(dedupOut[a]), RankKey(dedupOut[b])) => a < b

\* a 1080p stream was handed in ahead of one that differs from it only in
\* being 4K, and came out behind it
C4_Witness ==
    /\ dedupPc = "returned"
    /\ Len(streams) = 2
    /\ streams[1].mediaInfo = MediaInfo(TRUE, "1080p", "null", FALSE, NumV(9))
    /\ streams[2].mediaInfo = MediaInfo(TRUE, "4K", "null", FALSE, NumV(9))
    /\ dedupOut = <<streams[2], streams[1]>>

-----------------------------------------------------------------------------
(* Claims about _isMatchingProviderId and getQualityTag.                    *)

\* s without a leading tt
StripTT(s) == IF startsWith(s, S_tt) THEN SubSeq(s, 3, Len(s)) ELSE s

\* some property of p, its name being family in any casing, holds a string
\* that satisfies Test
HasStored(p, family, Test(_)) ==
    \E k \in DOMAIN p : toLowerCase(k) = family /\ p[k].t = "str" /\ Test(p[k].s)

\* C9: _isMatchingProviderId recognises the provider key in any casing; for
\* IMDb it ignores the tt prefix in both directions (target tt100 matches
\* stored 100, target 100 matches stored tt100); for TMDb, TVDB and AniDB it
\* returns true only when the stored value equals the target as a string.
C9_CaseAndPrefixInsensitive ==
    (matchPc = "returned" /\ providerIds # None) =>
        LET p == providerIds[1]
            SameImdb(v) == StripTT(v) = StripTT(targetIds.imdb)
            Exact(f, t) ==
                /\ HasStored(p, f, LAMBDA v : v = t) => matchResult
                /\ matchResult => \E k \in DOMAIN p : toLowerCase(k) = f /\ String(p[k]) = t
        IN /\ (Given(targetIds.imdb) /\ HasStored(p, S_imdb, SameImdb)) => matchResult
           /\ Given(targetIds.tmdb) => Exact(S_tmdb, targetIds.tmdb)
           /\ Given(targetIds.tvdb) => Exact(S_tvdb, targetIds.tvdb)
           /\ Given(targetIds.anidb) => Exact(S_anidb, targetIds.anidb)

\* the resolution tokens the specification lists
ResolutionTokens ==
    { <<"4","k">>, <<"2","1","6","0","p">>, <<"1","4","4","0","p">>,
      <<"1","0","8","0","p">>, <<"7","2","0","p">>, <<"5","7","6","p">>,
      <<"4","8","0","p">>, <<"s","d">> }

\* the label holds one of the tokens as a word of its own, in any casing
HasResolutionToken(label) ==
    \E a, b \in 1..Len(label) :
        /\ a <= b
        /\ WordBoundary(label, a)
        /\ WordBoundary(label, b + 1)
        /\ toLowerCase(SubSeq(label, a, b)) \in ResolutionTokens

\* a dimension is absent: missing, or zero
Absent(v) == v.t = "undefined" \/ (v.t = "num" /\ v.n = 0)

\* C10: getQualityTag returns "Unknown" exactly when width and height are
\* both absent and the display label holds no resolution token of
\* {4k, 2160p, 1440p, 1080p, 720p, 576p, 480p, sd}; a missing video stream
\* counts as both absent.
C10_UnknownIff ==
    qualityPc = "returned" =>
        (qualityTag = "Unknown" <=>
            \/ videoStream = None
            \/ /\ Absent(videoStream[1].Width)
               /\ Absent(videoStream[1].Height)
               /\ \/ videoStream[1].DisplayTitle.t # "str"
                  \/ ~HasResolutionToken(videoStream[1].DisplayTitle.s))

-----------------------------------------------------------------------------
(* Claims about the enrichment of a MediaSource.                            *)

\* the source has no MediaStreams: the property is missing, null or empty
HasNoMediaStreams(source) ==
    source.MediaStreams.t \in {"missing", "null"} \/ source.MediaStreams.list = << >>

\* C11: processing a MediaSource whose MediaStreams is null, missing or
\* empty raises no error and pushes a descriptor whose profile has
\* qualityTag "Unknown" and the upper-cased Container of the source (empty
\* when the source has none) as container, and whose subtitles are empty.
C11_NoStreamsDegrades ==
    (enrichPc = "processed" /\ mediaSource # None /\ HasNoMediaStreams(mediaSource[1])) =>
        /\ streamDetail.kind = "pushed"
        /\ streamDetail.detail[1].mediaInfo.qualityTag = "Unknown"
        /\ streamDetail.detail[1].mediaInfo.container =
               (IF mediaSource[1].Container.t = "str"
                THEN toUpperCase(mediaSource[1].Container.s) ELSE << >>)
        /\ streamDetail.detail[1].subtitles = << >>

\* a source with a container and a null MediaStreams was processed
C11_Witness ==
    /\ enrichPc = "processed"
    /\ mediaSource # None
    /\ mediaSource[1].MediaStreams = Null
    /\ mediaSource[1].Container = Str(S_mkv)
    /\ streamDetail.kind = "pushed"

\* the fields a TechnicalProfile is made of
ProfileFields ==
    { "qualityTag", "resolutionDimensions", "videoTag", "hdrTag", "audioTag",
      "container", "isRemux", "bitrateFormatted", "sizeFormatted", "filename",
      "supportsDirectPlay", "supportsDirectStream" }

\* C12: every profile safeExtractMediaInfo returns, on the normal path and
\* on the fallback path, has all of the fields qualityTag,
\* resolutionDimensions, videoTag, hdrTag, audioTag, container, isRemux,
\* bitrateFormatted, sizeFormatted, filename, supportsDirectPlay and
\* supportsDirectStream.
C12_FullyPopulated ==
    enrichPc = "extracted" => ProfileFields \subseteq DOMAIN mediaInfo[1]

-----------------------------------------------------------------------------
(* Claims about getStream.                                                  *)

\* the ids of the episodes the library holds under the given series with
\* exactly this season and episode number
EpisodeIdsOf(series, seasonNumber, episodeNumber) ==
    { id \in {"e111", "e112", "e121", "e211"} :
        \E k \in 1..Len(series) :
          \E s \in 1..Len(SeasonsOf(series[k].Id)) :
            LET season == SeasonsOf(series[k].Id)[s]
            IN \E e \in 1..Len(EpisodesOf(season.Id)) :
                 LET ep == EpisodesOf(season.Id)[e]
                 IN /\ ep.Id = id
                    /\ season.IndexNumber = seasonNumber
                    /\ ep.IndexNumber = episodeNumber
                    /\ ep.ParentIndexNumber = seasonNumber }

\* C13: on the episode path with several candidate series, a series that
\* lacks the requested season or episode does not end the call: when no
\* answer of the server holds a null element, the seasons of every candidate
\* series are requested, the promise is not rejected, and every stream
\* collected and returned belongs to an episode with exactly the requested
\* season and episode number under one of the candidates.
C13_SeriesWithoutEpisodeSkipped ==
    (pc = "done" /\ parsed # None /\ parsed[1].itemType = ITEM_TYPE_EPISODE
                /\ foundItems # << >>
                /\ \A a \in 1..Len(answers) : answers[a] # "broken") =>
        /\ outcome # Rejected
        /\ \A k \in 1..Len(foundItems) :
              \E r \in 1..Len(requests) : requests[r] = SeasonsRequest(foundItems[k])
        /\ \A k \in 1..Len(allStreams) :
              allStreams[k].itemId \in EpisodeIdsOf(foundItems, parsed[1].seasonNumber.n,
                                                    parsed[1].episodeNumber.n)
        /\ outcome.kind = "list" =>
              \A o \in 1..Len(outcome.list) :
                \E k \in 1..Len(allStreams) : outcome.list[o] = allStreams[k]

\* series s2, which has season 1 but no episode 2, came first and was
\* skipped; the one stream returned is of episode 2 under series s1
C13_Witness ==
    /\ pc = "done"
    /\ parsed # None /\ parsed[1].itemType = ITEM_TYPE_EPISODE
    /\ Len(foundItems) = 2
    /\ foundItems[1].Id = "s2" /\ foundItems[2].Id = "s1"
    /\ failedSeries = 1
    /\ outcome.kind = "list" /\ Len(outcome.list) = 1
    /\ outcome.list[1].itemId = "e112"

\* C14: when the configuration lacks serverUrl, userId or accessToken, or
\* the id handed in does not parse, getStream returns null and has issued no
\* request.
C14_NoRequestWithoutConfigOrId ==
    (pc = "done" /\ config # None
        /\ (\/ NULL \in {config[1].serverUrl, config[1].userId, config[1].accessToken}
            \/ parseMediaId(compositeId) = None)) =>
        outcome = ReturnedNull /\ requests = << >>

\* the call returned null on a configuration whose access token alone is
\* missing, for an id that parses
C14_Witness ==
    /\ pc = "done"
    /\ config # None
    /\ config[1].serverUrl # NULL /\ config[1].userId # NULL /\ config[1].accessToken = NULL
    /\ parseMediaId(compositeId) # None
    /\ outcome = ReturnedNull
    /\ requests = << >>

-----------------------------------------------------------------------------
(* Claims about assertPublicHost.                                           *)

\* the octets lie in 10/8, 172.16/12, 192.168/16, 127/8 or 169.254/16
PrivateOctets(o) ==
    \/ o[1] \in {10, 127}
    \/ o[1] = 172 /\ o[2] \in 16..31
    \/ o[1] = 192 /\ o[2] = 168
    \/ o[1] = 169 /\ o[2] = 254

\* the address is private, loopback, link-local (fe80::/10) or unique-local
\* (fc00::/7), in itself or as the IPv4 address it maps
PrivateAddress(a) ==
    IF a.form = "v4" THEN PrivateOctets(a.groups)
    ELSE \/ a.groups = Loopback6
         \/ a.groups[1] \div 64 = 1018
         \/ a.groups[1] \div 512 = 126
         \/ a.dotted /\ PrivateOctets(to4(a.groups).octets)

\* every record the resolver holds
Answers == dnsRecords.v4 \o dnsRecords.v6

HttpUrl == serverUrl.wellFormed /\ serverUrl.protocol \in {"http:", "https:"}

\* C15: assertPublicHost returns normally for every http or https URL whose
\* host is a public IP literal (the resolver answering with that address
\* alone) or a domain name the resolver answers for with public addresses
\* only.
C15_AcceptsPublicHosts ==
    (/\ guardPc = "done"
     /\ HttpUrl
     /\ \A k \in 1..Len(Answers) : ~PrivateAddress(Answers[k])
     /\ \/ serverUrl.hostname.form = "name" /\ Answers # << >>
        \/ /\ serverUrl.hostname.form \in {"v4", "v6"}
           /\ ~PrivateAddress(serverUrl.hostname)
           /\ Answers = << [serverUrl.hostname EXCEPT !.bracketed = FALSE] >>)
        => guardOutcome = Accepted

\* C16: assertPublicHost never returns normally for a URL that is
\* malformed, is not http or https, has a private, loopback or link-local IP
\* literal as host, resolves to no address, or resolves to at least one
\* private, loopback, link-local or unique-local address.
C16_RejectsUnsafeHosts ==
    (/\ guardPc = "done"
     /\ \/ ~HttpUrl
        \/ serverUrl.hostname.form \in {"v4", "v6"} /\ PrivateAddress(serverUrl.hostname)
        \/ Answers = << >>
        \/ \E k \in 1..Len(Answers) : PrivateAddress(Answers[k]))
        => guardOutcome # Accepted

-----------------------------------------------------------------------------
(* Claims about the stream route.                                           *)

\* C17: in every run of the stream route, a request is sent to the
\* configured server only after assertPublicHost has run on cfg.serverUrl
\* and returned normally.
C17_ValidatedBeforeFirstRequest ==
    (routePc # "rest" /\ requests # << >>) => (guardPc = "done" /\ guardOutcome = Accepted)

-----------------------------------------------------------------------------
(* Further claims about parseMediaId and _isMatchingProviderId.             *)

\* s starts with tt, tmdb, tvdb or anidb and goes on after the prefix
BarePrefixed(s) ==
    \E prefix \in {S_tt, S_tmdb, S_tvdb, S_anidb} :
        startsWith(s, prefix) /\ Len(s) > Len(prefix)

\* C18: parseMediaId returns null for every single-segment id that does not
\* start with tt, tmdb, tvdb or anidb followed by a non-empty tail.
C18_OtherBareIdsRejected ==
    (parsePc = "returned" /\ Len(segments) = 1 /\ ~BarePrefixed(segments[1])) =>
        parsedId = None

\* the key casings the matcher reads for each family
RecognisedKeys ==
    [imdb |-> {K_Imdb, K_imdb, K_IMDB}, tmdb |-> {K_Tmdb, K_tmdb, K_TMDB},
     tvdb |-> {K_Tvdb, K_tvdb, K_TVDB}, anidb |-> {K_AniDb, K_anidb, K_ANIDB}]

\* some recognised key of some family holds a number whose decimal text is
\* the target given for that family
NumberStoredEqualsTarget ==
    /\ providerIds # None
    /\ \E family \in DOMAIN RecognisedKeys :
         /\ Given(targetIds[family])
         /\ \E k \in RecognisedKeys[family] \cap DOMAIN providerIds[1] :
              providerIds[1][k].t = "num" /\ decimal(providerIds[1][k].n) = targetIds[family]

\* C19: _isMatchingProviderId compares the stored value as a string: an id
\* stored as a number under any recognised key casing of any family matches
\* the target that is its decimal text; and with no providerIds the result
\* is false.
C19_NumberMatchesString ==
    matchPc = "returned" =>
        /\ NumberStoredEqualsTarget => matchResult = TRUE
        /\ providerIds = None => matchResult = FALSE

-----------------------------------------------------------------------------
(* Further claims about getStream.                                          *)

\* the positions in requests of the Strategy B (AnyProviderIdEquals) queries
StrategyBRequests == {r \in 1..Len(requests) : requests[r].kind \in {"MovieAny", "SeriesAny"}}

\* C20: a Strategy B request is issued only after the Strategy A request
\* has been issued and answered and none of the items it returned passed the
\* provider-id matcher; when Strategy A verified at least one match, no
\* Strategy B request is sent.
C20_StrategyBOnlyAfterEmptyA ==
    /\ StrategyBRequests # {} =>
          /\ requests[1].kind \in {"MovieDirect", "SeriesDirect"}
          /\ 1 \notin StrategyBRequests
          /\ directMatches = Some(<< >>)
    /\ (directMatches # None /\ directMatches[1] # << >>) => StrategyBRequests = {}

\* Strategy A was answered with no item that passes the matcher, the four
\* Strategy B queries of an IMDb id followed, and their matches gave streams
C20_Witness ==
    /\ pc = "done"
    /\ Len(requests) >= 5
    /\ requests[1].kind = "MovieDirect"
    /\ directMatches = Some(<< >>)
    /\ StrategyBRequests = 2..5
    /\ outcome.kind = "list"

\* C21: within Strategy B of findMovieItem a permutation is queried only
\* while the earlier ones have verified no match: whenever a Strategy B query
\* is in flight, no item has been verified yet.
C21_LaterFormatOnlyAfterNoMatch ==
    (pc = "movieB" /\ inflight # None) => foundItems = << >>

\* item passes the provider-id matcher against the parsed target ids
Verified(item) ==
    _isMatchingProviderId(item.ProviderIds, parsed[1].imdbId, parsed[1].tmdbId,
                          parsed[1].tvdbId, parsed[1].anidbId)

\* C22: every movie getStream requests playback info for, and every series
\* it requests the seasons of, is an item of the catalog that passes
\* _isMatchingProviderId against the parsed target id, whichever strategy
\* returned it.
C22_OnlyVerifiedItemsForwarded ==
    \A r \in 1..Len(requests) :
        /\ (requests[r].kind = "PlaybackInfo" /\ parsed[1].itemType = ITEM_TYPE_MOVIE) =>
              \E m \in Movies : m.Id = requests[r].arg[1] /\ Verified(m)
        /\ requests[r].kind = "Seasons" =>
              \E series \in Series : series.Id = requests[r].arg[1] /\ Verified(series)

\* the TMDb movie, found by Strategy B, the one item the call went on with
C22_Witness ==
    /\ pc = "done"
    /\ Len(requests) >= 3
    /\ requests[2].kind = "MovieAny"
    /\ requests[Len(requests)] = Request("PlaybackInfo", <<"i2">>)
    /\ parsed[1].tmdbId = S_7
    /\ outcome.kind = "list"

\* C23: for the same target id, Strategy B of findSeriesItem queries the
\* same set of provider-value permutations as Strategy B of findMovieItem
\* (lower-case and capitalised prefix, and for IMDb the stripped variants).
C23_SeriesQueriesMoviePermutations ==
    (/\ pc \in {"seasons", "episodes", "playbackEpisode", "done"}
     /\ parsed # None /\ parsed[1].itemType = ITEM_TYPE_EPISODE
     /\ directMatches = Some(<< >>)) =>
        {requests[r].arg : r \in StrategyBRequests}
            = {anyProviderIdFormats(parsed[1])[k] :
                 k \in 1..Len(anyProviderIdFormats(parsed[1]))}

\* no answer of the run was a faulty document: every request either failed
\* or returned well-formed data
NoFaultyAnswer == \A k \in 1..Len(answers) : answers[k] # "broken"

\* C24: a failed request is a soft null for that request only.  In a run
\* whose requests fail or succeed in any pattern, Strategy B is still tried
\* in full when Strategy A verified nothing, the playback info of every
\* matched movie and the seasons of every candidate series are still
\* requested, the promise is never rejected, and null is returned only when
\* not a single stream was collected.
C24_FailureIsSoftNull ==
    (pc = "done" /\ parsed # None /\ answers # << >> /\ NoFaultyAnswer) =>
        /\ outcome # Rejected
        /\ outcome = ReturnedNull <=> allStreams = << >>
        /\ parsed[1].itemType = ITEM_TYPE_MOVIE =>
              /\ directMatches = Some(<< >>) =>
                    LET fmts == anyProviderIdFormats(parsed[1])
                    IN /\ Len(requests) >= 1 + Len(fmts)
                       /\ \A k \in 1..Len(fmts) : requests[1 + k] = Request("MovieAny", fmts[k])
              /\ \A k \in 1..Len(foundItems) :
                    \E r \in 1..Len(requests) : requests[r] = PlaybackRequest(foundItems[k])
        /\ parsed[1].itemType = ITEM_TYPE_EPISODE =>
              /\ directMatches = Some(<< >>) =>
                    /\ Len(requests) >= 2
                    /\ requests[2] = Request("SeriesAny", anyProviderIdValue(parsed[1]))
              /\ \A k \in 1..Len(foundItems) :
                    \E r \in 1..Len(requests) : requests[r] = SeasonsRequest(foundItems[k])

\* the Strategy A request failed, Strategy B found movies, the playback info
\* of the first one failed, and the call still returned streams
C24_Witness ==
    /\ pc = "done"
    /\ Len(requests) >= 7
    /\ requests[1].kind = "MovieDirect" /\ answers[1] = "null"
    /\ requests[6].kind = "PlaybackInfo" /\ answers[6] = "null"
    /\ outcome.kind = "list"

\* C25: the requests of one getStream call are strictly sequential: the
\* requests issued outnumber the answers received by one while a request is
\* awaited and by none otherwise, the request awaited is the last one
\* issued, and none is outstanding once the promise has settled.
C25_OneRequestInFlight ==
    /\ Len(requests) - Len(answers) = (IF inflight = None THEN 0 ELSE 1)
    /\ inflight # None => inflight[1] = requests[Len(requests)]
    /\ pc = "done" => inflight = None

\* the third request of a call is awaited, two having been answered
C25_Witness == inflight # None /\ Len(requests) = 3 /\ Len(answers) = 2

-----------------------------------------------------------------------------
(* Further claims about getQualityTag.                                      *)

\* dimension v is present and at least k
Reaches(v, k) == v.t = "num" /\ v.n >= k

\* the tag the specification computes from the dimensions
TagOfDimensions(width, height) ==
    IF Absent(width) /\ Absent(height) THEN "Unknown"
    ELSE IF Reaches(width, 4096) THEN "4K DCI"
    ELSE IF Reaches(width, 3840) \/ Reaches(height, 2160) THEN "4K"
    ELSE IF Reaches(height, 1440) THEN "1440p"
    ELSE IF Reaches(height, 1080) THEN "1080p"
    ELSE IF Reaches(height, 720) THEN "720p"
    ELSE IF Reaches(height, 576) THEN "576p"
    ELSE IF Reaches(height, 480) THEN "480p"
    ELSE "SD"

\* the label is missing, or holds neither a listed token nor any text the
\* pattern of the code matches
LabelWithoutResolution(label) ==
    label.t # "str" \/ (~HasResolutionToken(label.s) /\ resolutionMatch(label.s) = None)

-----------------------------------------------------------------------------
(* Further claims about getPlaybackStreams.                                 *)

\* C27: for a playback-info response with n MediaSources, getPlaybackStreams
\* returns exactly n descriptors, one per source in order, whatever
\* exception the processing of a source raises.
C27_OneDescriptorPerSource ==
    enrichPc = "looped" =>
        /\ streamDetailsArray.kind = "list"
        /\ Len(streamDetailsArray.list) = Len(mediaSources)
        /\ \A k \in 1..Len(mediaSources) :
              mediaSources[k] # None =>
                  streamDetailsArray.list[k].mediaSourceId = mediaSources[k][1].Id


\* the extension the table gives a codec: srt, vtt, ass or ssa for subrip,
\* webvtt, ass or ssa in any case of the letters, srt for any other codec
\* and for a missing one
ExtensionOfCodec(codec) ==
    LET lower == IF codec.t = "str" THEN toLowerCase(codec.s) ELSE << >>
    IN CASE lower = <<"w","e","b","v","t","t">> -> <<"v","t","t">>
         [] lower = <<"a","s","s">> -> <<"a","s","s">>
         [] lower = <<"s","s","a">> -> <<"s","s","a">>
         [] OTHER -> <<"s","r","t">>

\* C28: the subtitles of a descriptor hold one entry per MediaStream of type
\* Subtitle, in stream order; the extension of each entry is the one the
\* table gives its codec, and its language is the stream's Language
\* unchanged, "und" when the stream has none.
C28_OneSubtitlePerStream ==
    (enrichPc = "processed" /\ streamDetail.kind = "pushed") =>
        LET subs == SelectSeq(streamsOf(mediaSource[1]), LAMBDA ms : ms.Type = "Subtitle")
            entries == streamDetail.detail[1].subtitles
        IN /\ Len(entries) = Len(subs)
           /\ \A k \in 1..Len(subs) :
                 /\ entries[k].index = subs[k].Index
                 /\ entries[k].format = ExtensionOfCodec(subs[k].Codec)
                 /\ entries[k].lang = IF subs[k].Language = Undefined THEN S_und
                                      ELSE subs[k].Language.s

\* a playback-info request of the run was answered with at least one
\* MediaSource, each of which getPlaybackStreams turns into a descriptor
SomeSourceDescribed ==
    \E k \in 1..Len(answers) :
        /\ requests[k].kind = "PlaybackInfo"
        /\ answers[k] = "data"
        /\ MediaSourcesOf(requests[k].arg[1]) # << >>

\* C29: called with a configuration, getStream resolves to null or to a list
\* of at least one descriptor, and to a list exactly when a playback-info
\* request of the run returned a MediaSource that was turned into a
\* descriptor.
C29_ListIffSourceDescribed ==
    (pc = "done" /\ config # None) =>
        /\ outcome.kind \in {"null", "list"}
        /\ outcome.kind = "list" => Len(outcome.list) >= 1
        /\ outcome.kind = "list" <=> SomeSourceDescribed

\* the mediaSourceIds of a list of descriptors
IdsOf(list) == [k \in 1..Len(list) |-> list[k].mediaSourceId]

\* C30: on the same composite id, configuration and server responses,
\* getStream of embyClient.js and getStream of jellyfinClient.js both return
\* null, or return lists with the same mediaSourceIds in the same order,
\* each id once.
C30_ClientsResolveAlike ==
    pc = "done" =>
        /\ embyOutcome.kind = outcome.kind
        /\ outcome.kind = "list" =>
              /\ IdsOf(embyOutcome.list) = IdsOf(outcome.list)
              /\ NoRepeat(IdsOf(embyOutcome.list))
              /\ NoRepeat(IdsOf(outcome.list))

=============================================================================
